---- MODULE Spec2Model ----
(***************************************************************************)
(* A model of sconfig (src/sconfig.go): the line normalizer (readFile,     *)
(* removeComments, collapseWhitespace), the field resolver                 *)
(* (fieldNameFromKey), the type-handler registry (TypeHandlers) and the    *)
(* driver (Parse, MustParse).                                              *)
(*                                                                         *)
(* Text is kept as TLA+ strings and processed character by character, the  *)
(* way the Go code does.  Go indexes from 0, TLA+ from 1: an operator that *)
(* takes or returns a position says which of the two it uses.              *)
(***************************************************************************)
EXTENDS Integers, Sequences, FiniteSets, TLC

(***************************************************************************)
(* Bounds of the model.                                                    *)
(***************************************************************************)
\* The longest top-level file handed to Parse, in physical lines.
MaxLines == 3

(***************************************************************************)
(* Strings.                                                                *)
(***************************************************************************)
\* The byte of s at the 0-based position i (Go's s[i]); i must be in range.
At(s, i) == SubSeq(s, i + 1, i + 1)

\* Go's s[from:to] with 0-based bounds.
Slice(s, from, to) == SubSeq(s, from + 1, to)

\* unicode.IsSpace, on the characters the model's files contain.
IsSpace(ch) == ch \in {" ", "\t"}

RECURSIVE TrimLeft(_)
TrimLeft(s) ==
    IF Len(s) > 0 /\ IsSpace(At(s, 0)) THEN TrimLeft(Slice(s, 1, Len(s))) ELSE s

RECURSIVE TrimRight(_)
TrimRight(s) ==
    IF Len(s) > 0 /\ IsSpace(At(s, Len(s) - 1))
    THEN TrimRight(Slice(s, 0, Len(s) - 1))
    ELSE s

\* strings.TrimSpace
TrimSpace(s) == TrimRight(TrimLeft(s))

\* strings.HasPrefix
HasPrefix(s, p) == Len(s) >= Len(p) /\ Slice(s, 0, Len(p)) = p

\* strings.HasSuffix
HasSuffix(s, p) == Len(s) >= Len(p) /\ Slice(s, Len(s) - Len(p), Len(s)) = p

\* strings.Index: the 0-based position of the first sub in s, or -1.
RECURSIVE IndexFrom(_, _, _)
IndexFrom(s, sub, i) ==
    IF i + Len(sub) > Len(s) THEN -1
    ELSE IF Slice(s, i, i + Len(sub)) = sub THEN i
    ELSE IndexFrom(s, sub, i + 1)

Index(s, sub) == IndexFrom(s, sub, 0)

\* strings.Split(s, sep) for a non-empty sep: always at least one element.
RECURSIVE Split(_, _)
Split(s, sep) ==
    LET p == Index(s, sep)
    IN IF p < 0 THEN <<s>>
       ELSE <<Slice(s, 0, p)>> \o Split(Slice(s, p + Len(sep), Len(s)), sep)

\* strings.Join
RECURSIVE Join(_, _)
Join(v, sep) ==
    IF Len(v) = 0 THEN ""
    ELSE IF Len(v) = 1 THEN v[1]
    ELSE v[1] \o sep \o Join(Tail(v), sep)

\* strings.Replace(s, old, new, -1) for a non-empty old.
RECURSIVE Replace(_, _, _)
Replace(s, old, new) ==
    LET p == Index(s, old)
    IN IF p < 0 THEN s
       ELSE Slice(s, 0, p) \o new \o Replace(Slice(s, p + Len(old), Len(s)), old, new)

\* unicode.ToUpper and unicode.ToLower on the ASCII letters, as tables.
UpperOf ==
    [a |-> "A", b |-> "B", c |-> "C", d |-> "D", e |-> "E", f |-> "F", g |-> "G",
     h |-> "H", i |-> "I", j |-> "J", k |-> "K", l |-> "L", m |-> "M", n |-> "N",
     o |-> "O", p |-> "P", q |-> "Q", r |-> "R", s |-> "S", t |-> "T", u |-> "U",
     v |-> "V", w |-> "W", x |-> "X", y |-> "Y", z |-> "Z"]

LowerOf ==
    [A |-> "a", B |-> "b", C |-> "c", D |-> "d", E |-> "e", F |-> "f", G |-> "g",
     H |-> "h", I |-> "i", J |-> "j", K |-> "k", L |-> "l", M |-> "m", N |-> "n",
     O |-> "o", P |-> "p", Q |-> "q", R |-> "r", S |-> "s", T |-> "t", U |-> "u",
     V |-> "v", W |-> "w", X |-> "x", Y |-> "y", Z |-> "z"]

IsUpper(ch) == ch \in DOMAIN LowerOf

ToUpperChar(ch) == IF ch \in DOMAIN UpperOf THEN UpperOf[ch] ELSE ch

ToLowerChar(ch) == IF ch \in DOMAIN LowerOf THEN LowerOf[ch] ELSE ch

\* strings.ToUpper
RECURSIVE ToUpper(_)
ToUpper(s) ==
    IF Len(s) = 0 THEN "" ELSE ToUpperChar(At(s, 0)) \o ToUpper(Slice(s, 1, Len(s)))

\* strings.ToLower
RECURSIVE ToLower(_)
ToLower(s) ==
    IF Len(s) = 0 THEN "" ELSE ToLowerChar(At(s, 0)) \o ToLower(Slice(s, 1, Len(s)))

(***************************************************************************)
(* Results of Go functions.  A function that can abort with a run-time     *)
(* panic returns a record whose field panic holds the panic's value, or    *)
(* NoPanic.                                                                *)
(***************************************************************************)
NoPanic == ""
NoErr == ""
IndexOutOfRange == "runtime error: index out of range"
NilFuncCall == "runtime error: invalid memory address or nil pointer dereference"

(***************************************************************************)
(* Line normalizer.                                                        *)
(***************************************************************************)
\* removeComments: [panic, v].
RECURSIVE removeCommentsLoop(_, _)
removeCommentsLoop(line, prevcmt) ==
    LET rel == Index(Slice(line, prevcmt, Len(line)), "#")
        cmt == rel + prevcmt
    IN IF rel < 0 THEN [panic |-> NoPanic, v |-> line]
       ELSE IF cmt - 1 < 0 THEN [panic |-> IndexOutOfRange, v |-> ""]
       ELSE IF At(line, cmt - 1) = "\\"
            THEN removeCommentsLoop(Slice(line, 0, cmt - 1) \o Slice(line, cmt, Len(line)), cmt)
            ELSE [panic |-> NoPanic, v |-> Slice(line, 0, cmt)]

\* A removeComments that cuts at the first #, escaped or not.
removeCommentsFirstHash(line) ==
    IF Index(line, "#") < 0 THEN [panic |-> NoPanic, v |-> line]
    ELSE [panic |-> NoPanic, v |-> Slice(line, 0, Index(line, "#"))]

removeComments(line) == removeCommentsLoop(line, 0)

\* collapseWhitespace: [panic, v].  i is the 0-based position of the loop.
RECURSIVE collapseLoop(_, _, _, _)
collapseLoop(line, i, nl, prevSpace) ==
    IF i >= Len(line) THEN [panic |-> NoPanic, v |-> nl]
    ELSE LET char == At(line, i)
         IN IF char = "\\"
            THEN IF i - 1 < 0 THEN [panic |-> IndexOutOfRange, v |-> ""]
                 ELSE collapseLoop(line, i + 1,
                                   IF At(line, i - 1) = "\\" THEN nl \o "\\" ELSE nl,
                                   prevSpace)
            ELSE IF IsSpace(char)
            THEN IF prevSpace
                 THEN collapseLoop(line, i + 1,
                                   IF At(line, i - 1) = "\\" THEN nl \o char ELSE nl,
                                   prevSpace)
                 ELSE collapseLoop(line, i + 1,
                                   IF i # Len(line) - 1 THEN nl \o " " ELSE nl,
                                   TRUE)
            ELSE collapseLoop(line, i + 1, nl \o char, FALSE)

collapseWhitespace(line) == collapseLoop(line, 0, "", FALSE)

\* A file system: a function from the paths that can be opened to the physical
\* lines of each file (bufio.Scanner's tokens).  The error of os.Open.
OpenError(file) == "open " \o file \o ": no such file or directory"

ErrFirstIndented == "first line can't be indented"

\* readFile: [lines, err, panic]; lines is a sequence of <<number, text>>,
\* the number formatted in decimal as the code does.
\* readLoop is the scanner loop: k is `no` for the line about to be read,
\* i the code's counter of non-indented retained lines.
RECURSIVE readFile(_, _)
RECURSIVE readLoop(_, _, _, _, _)
readLoop(disk, content, k, lines, i) ==
    IF k > Len(content) THEN [lines |-> lines, err |-> NoErr, panic |-> NoPanic]
    ELSE
      LET raw == content[k]
          isIndented == Len(raw) > 0 /\ IsSpace(At(raw, 0))
          trimmed == TrimSpace(raw)
      IN IF trimmed = "" \/ At(trimmed, 0) = "#"
         THEN readLoop(disk, content, k + 1, lines, i)
         ELSE
           LET rc == removeComments(trimmed)
               cw == collapseWhitespace(rc.v)
               line == cw.v
           IN IF rc.panic # NoPanic
              THEN [lines |-> <<>>, err |-> NoErr, panic |-> rc.panic]
              ELSE IF cw.panic # NoPanic
              THEN [lines |-> <<>>, err |-> NoErr, panic |-> cw.panic]
              ELSE IF isIndented
              THEN IF i = 0
                   THEN [lines |-> lines, err |-> ErrFirstIndented, panic |-> NoPanic]
                   ELSE IF i - 1 >= Len(lines)
                   THEN [lines |-> <<>>, err |-> NoErr, panic |-> IndexOutOfRange]
                   ELSE readLoop(disk, content, k + 1,
                                 [lines EXCEPT ![i][2] = @ \o " " \o line], i)
              ELSE IF HasPrefix(line, "source ")
              THEN LET sourced == readFile(disk, Slice(line, 7, Len(line)))
                   IN IF sourced.panic # NoPanic
                      THEN [lines |-> <<>>, err |-> NoErr, panic |-> sourced.panic]
                      ELSE IF sourced.err # NoErr
                      THEN [lines |-> <<>>, err |-> sourced.err, panic |-> NoPanic]
                      ELSE readLoop(disk, content, k + 1, lines \o sourced.lines, i + 1)
              ELSE readLoop(disk, content, k + 1,
                            Append(lines, <<ToString(k), line>>), i + 1)

\* A readFile that gives each line its file's path with its number.
readFileQualifies(disk, file) ==
    IF file \notin DOMAIN disk
    THEN [lines |-> <<>>, err |-> OpenError(file), panic |-> NoPanic]
    ELSE LET r == readLoop(disk, disk[file], 1, <<>>, 0)
         IN [r EXCEPT !.lines =
                [k \in 1..Len(r.lines) |->
                    IF Index(r.lines[k][1], ":") >= 0 THEN r.lines[k]
                    ELSE <<file \o ":" \o r.lines[k][1], r.lines[k][2]>>]]

\* A readFile that numbers the logical lines as it returns them: 1, 2, ...
readFileCountsLogical(disk, file) ==
    IF file \notin DOMAIN disk
    THEN [lines |-> <<>>, err |-> OpenError(file), panic |-> NoPanic]
    ELSE LET r == readLoop(disk, disk[file], 1, <<>>, 0)
         IN [r EXCEPT !.lines = [k \in 1..Len(r.lines) |-> <<ToString(k), r.lines[k][2]>>]]

\* A readFile that puts each line it reads before the ones it has.
readFilePrepends(disk, file) ==
    IF file \notin DOMAIN disk
    THEN [lines |-> <<>>, err |-> OpenError(file), panic |-> NoPanic]
    ELSE LET r == readLoop(disk, disk[file], 1, <<>>, 0)
         IN [r EXCEPT !.lines = [k \in 1..Len(r.lines) |-> r.lines[Len(r.lines) + 1 - k]]]

readFile(disk, file) ==
    IF file \notin DOMAIN disk
    THEN [lines |-> <<>>, err |-> OpenError(file), panic |-> NoPanic]
    ELSE readLoop(disk, disk[file], 1, <<>>, 0)

(***************************************************************************)
(* Field resolver.                                                         *)
(***************************************************************************)
\* inflect.Camelize (the library's splitAtCaseChangeWithTitlecase, joined):
\* a spacer character or an upper-case letter starts a new word, the first
\* letter of a word is upper-cased, the others are lower-cased, and spacers
\* are dropped.  wordLen is the length of the word being built.
isSpacerChar(ch) == ch \in {"_", " ", ":", "-"}

RECURSIVE camelizeLoop(_, _, _, _)
camelizeLoop(word, i, out, wordLen) ==
    IF i >= Len(word) THEN out
    ELSE LET ch == At(word, i)
             spacer == isSpacerChar(ch)
             n == IF wordLen > 0 /\ (IsUpper(ch) \/ spacer) THEN 0 ELSE wordLen
         IN IF spacer THEN camelizeLoop(word, i + 1, out, n)
            ELSE camelizeLoop(word, i + 1,
                              out \o (IF n > 0 THEN ToLowerChar(ch) ELSE ToUpperChar(ch)),
                              n + 1)

Camelize(word) == camelizeLoop(word, 0, "", 0)

\* inflect.Pluralize, for the rules the model's names meet: a word in -s is
\* its own plural, a consonant followed by y gives -ies, otherwise -s.
Pluralize(word) ==
    IF HasSuffix(word, "s") THEN word
    ELSE IF Len(word) >= 2 /\ HasSuffix(word, "y")
            /\ At(word, Len(word) - 2) \notin {"a", "e", "i", "o", "u"}
    THEN Slice(word, 0, Len(word) - 1) \o "ies"
    ELSE word \o "s"

\* The acronyms of fieldNameFromKey, in the order of the code.
acr == <<"Api", "Ascii", "Cpu", "Css", "Dns", "Eof", "Guid", "Html",
         "Https", "Http", "Id", "Ip", "Json", "Lhs", "Qps", "Ram", "Rhs",
         "Rpc", "Sla", "Smtp", "Sql", "Ssh", "Tcp", "Tls", "Ttl", "Udp",
         "Ui", "Uid", "Uuid", "Uri", "Url", "Utf8", "Vm", "Xml", "Xsrf",
         "Xss">>

\* The loop over acr, for the acronyms lo..hi in order.  The range is split
\* in two halves, the first evaluated before the second starts, which keeps
\* the evaluation shallow; the result is that of the code's sequential loop.
RECURSIVE replaceAcronyms(_, _, _)
replaceAcronyms(fieldName, lo, hi) ==
    IF lo > hi THEN fieldName
    ELSE IF lo = hi THEN Replace(fieldName, acr[lo], ToUpper(acr[lo]))
    ELSE LET mid == (lo + hi) \div 2
             first == replaceAcronyms(fieldName, lo, mid)
         IN IF Len(first) = 0 THEN first
            ELSE replaceAcronyms(first, mid + 1, hi)

ErrUnknownOption(fieldName, fieldNamePlural) ==
    "unknown option (field " \o fieldName \o " or " \o fieldNamePlural \o " is missing)"

\* A resolver that tries the plural before the canonical name.
fieldNameFromKeyPluralFirst(key, fields) ==
    LET fieldName == replaceAcronyms(Camelize(key), 1, Len(acr))
        fieldNamePlural == Pluralize(fieldName)
    IN IF fieldNamePlural \in fields THEN [name |-> fieldNamePlural, err |-> NoErr]
       ELSE IF fieldName \in fields THEN [name |-> fieldName, err |-> NoErr]
       ELSE [name |-> "", err |-> ErrUnknownOption(fieldName, fieldNamePlural)]

\* fieldNameFromKey: [name, err].  fields is the set of the target's field
\* names: FieldByName(n).CanAddr() is n \in fields for a target reached
\* through a pointer.
fieldNameFromKey(key, fields) ==
    LET fieldName == replaceAcronyms(Camelize(key), 1, Len(acr))
        fieldNamePlural == Pluralize(fieldName)
    IN IF fieldName \in fields THEN [name |-> fieldName, err |-> NoErr]
       ELSE IF fieldNamePlural \in fields THEN [name |-> fieldNamePlural, err |-> NoErr]
       ELSE [name |-> "", err |-> ErrUnknownOption(fieldName, fieldNamePlural)]

(***************************************************************************)
(* Conversions of the built-in type handlers.  Each returns [val, err].    *)
(***************************************************************************)
Quote(s) == "\"" \o s \o "\""

\* A parseBool that compares the token as it is written.
parseBoolCaseSensitive(v) ==
    IF v \in {"1", "true", "yes", "on", "enable", "enabled"}
    THEN [val |-> TRUE, err |-> NoErr]
    ELSE IF v \in {"0", "false", "no", "off", "disable", "disabled"}
    THEN [val |-> FALSE, err |-> NoErr]
    ELSE [val |-> FALSE, err |-> "unable to parse " \o Quote(v) \o " as a boolean"]

\* parseBool
parseBool(v) ==
    LET l == ToLower(v)
    IN IF l \in {"1", "true", "yes", "on", "enable", "enabled"}
       THEN [val |-> TRUE, err |-> NoErr]
       ELSE IF l \in {"0", "false", "no", "off", "disable", "disabled"}
       THEN [val |-> FALSE, err |-> NoErr]
       ELSE [val |-> FALSE, err |-> "unable to parse " \o Quote(v) \o " as a boolean"]

Digits == "0123456789"

RECURSIVE AllDigits(_)
AllDigits(s) ==
    Len(s) = 0 \/ (Index(Digits, At(s, 0)) >= 0 /\ AllDigits(Slice(s, 1, Len(s))))

\* The number a string of decimal digits denotes.
RECURSIVE DecimalValue(_)
DecimalValue(s) ==
    IF Len(s) = 0 THEN 0
    ELSE 10 * DecimalValue(Slice(s, 0, Len(s) - 1)) + Index(Digits, At(s, Len(s) - 1))

\* The widths whose limits the model's integers can hold; a token of the
\* model never reaches the limits of a wider type.
NarrowBits == {8, 16}

ErrSyntax(fn, s) == "strconv." \o fn \o ": parsing " \o Quote(s) \o ": invalid syntax"
ErrRange(fn, s) == "strconv." \o fn \o ": parsing " \o Quote(s) \o ": value out of range"

\* A ParseInt that keeps the low bitSize bits of a value beyond the range.
ParseIntWraps(s, bitSize) ==
    LET signed == Len(s) > 0 /\ At(s, 0) \in {"+", "-"}
        neg == Len(s) > 0 /\ At(s, 0) = "-"
        body == IF signed THEN Slice(s, 1, Len(s)) ELSE s
        n == IF neg THEN 0 - DecimalValue(body) ELSE DecimalValue(body)
        cutoff == 2 ^ (bitSize - 1)
    IN IF Len(body) = 0 \/ ~AllDigits(body)
       THEN [val |-> 0, err |-> ErrSyntax("ParseInt", s)]
       ELSE IF bitSize \in NarrowBits
       THEN [val |-> ((n + cutoff) % (2 * cutoff)) - cutoff, err |-> NoErr]
       ELSE [val |-> n, err |-> NoErr]

\* strconv.ParseInt(s, 10, bitSize)
ParseInt(s, bitSize) ==
    LET signed == Len(s) > 0 /\ At(s, 0) \in {"+", "-"}
        neg == Len(s) > 0 /\ At(s, 0) = "-"
        body == IF signed THEN Slice(s, 1, Len(s)) ELSE s
        n == DecimalValue(body)
        cutoff == 2 ^ (bitSize - 1)
    IN IF Len(body) = 0 \/ ~AllDigits(body)
       THEN [val |-> 0, err |-> ErrSyntax("ParseInt", s)]
       ELSE IF bitSize \in NarrowBits /\ ((~neg /\ n >= cutoff) \/ (neg /\ n > cutoff))
       THEN [val |-> 0, err |-> ErrRange("ParseInt", s)]
       ELSE [val |-> IF neg THEN 0 - n ELSE n, err |-> NoErr]

\* strconv.ParseUint(s, 10, bitSize): no sign is accepted.
ParseUint(s, bitSize) ==
    IF Len(s) = 0 \/ ~AllDigits(s)
    THEN [val |-> 0, err |-> ErrSyntax("ParseUint", s)]
    ELSE IF bitSize \in NarrowBits /\ DecimalValue(s) >= 2 ^ bitSize
    THEN [val |-> 0, err |-> ErrRange("ParseUint", s)]
    ELSE [val |-> DecimalValue(s), err |-> NoErr]

\* strconv.ParseFloat on plain decimal literals: an optional sign, digits and
\* at most one point, at least one digit.  The value is kept as the literal.
ParseFloat(s, bitSize) ==
    LET signed == Len(s) > 0 /\ At(s, 0) \in {"+", "-"}
        body == IF signed THEN Slice(s, 1, Len(s)) ELSE s
        p == Index(body, ".")
        int == IF p < 0 THEN body ELSE Slice(body, 0, p)
        frac == IF p < 0 THEN "" ELSE Slice(body, p + 1, Len(body))
    IN IF Len(int) + Len(frac) = 0 \/ ~AllDigits(int) \/ ~AllDigits(frac)
       THEN [val |-> "", err |-> ErrSyntax("ParseFloat", s)]
       ELSE [val |-> s, err |-> NoErr]

(***************************************************************************)
(* Handler registry.  A registry is a function from type descriptors to    *)
(* the names of handler functions.  Go's nil map is the empty function:    *)
(* the operations of the model never empty a registry entry by entry.      *)
(***************************************************************************)
NilMap == <<>>

\* The map literal of defaultTypeHandlers.
BuiltinTypeHandlers ==
    ("string" :> "handleString") @@ ("bool" :> "handleBool") @@
    ("float32" :> "handleFloat32") @@ ("float64" :> "handleFloat64") @@
    ("int" :> "handleInt") @@ ("int8" :> "handleInt8") @@
    ("int16" :> "handleInt16") @@ ("int32" :> "handleInt32") @@
    ("int64" :> "handleInt64") @@
    ("uint" :> "handleUint") @@ ("uint8" :> "handleUint8") @@
    ("uint16" :> "handleUint16") @@ ("uint32" :> "handleUint32") @@
    ("uint64" :> "handleUint64") @@
    ("[]string" :> "handleStringSlice") @@ ("[]bool" :> "handleBoolSlice") @@
    ("[]float32" :> "handleFloat32Slice") @@ ("[]float64" :> "handleFloat64Slice") @@
    ("[]int" :> "handleIntSlice") @@ ("[]int8" :> "handleInt8Slice") @@
    ("[]int16" :> "handleInt16Slice") @@ ("[]int32" :> "handleInt32Slice") @@
    ("[]int64" :> "handleInt64Slice") @@
    ("[]uint" :> "handleUintSlice") @@ ("[]uint8" :> "handleUint8Slice") @@
    ("[]uint16" :> "handleUint16Slice") @@ ("[]uint32" :> "handleUint32Slice") @@
    ("[]uint64" :> "handleUint64Slice")

\* Handlers registered by callers: the one TestParseTypeHandlers stores under
\* "string", and one that takes its first token as the value, as the test's
\* handler for "*regexp.Regexp" does.
CustomTypeHandlers == {"typeHandler", "firstToken"}

\* What a type handler returns: [panic, err, val].
Ret(r) == [panic |-> NoPanic, err |-> r.err, val |-> r.val]
Panicked(p) == [panic |-> p, err |-> NoErr, val |-> ""]

\* The handlers that convert v[0] alone.
FirstOf(v) == v[1]

handleBits(h) ==
    IF h \in {"handleInt8", "handleUint8", "handleInt8Slice", "handleUint8Slice"} THEN 8
    ELSE IF h \in {"handleInt16", "handleUint16", "handleInt16Slice", "handleUint16Slice"} THEN 16
    ELSE IF h \in {"handleInt32", "handleUint32", "handleInt32Slice", "handleUint32Slice",
                   "handleFloat32", "handleFloat32Slice"} THEN 32
    ELSE 64

\* The conversion a slice handler applies to each token.
convertToken(h, tok) ==
    IF h = "handleBoolSlice" THEN parseBool(tok)
    ELSE IF h \in {"handleFloat32Slice", "handleFloat64Slice"} THEN ParseFloat(tok, handleBits(h))
    ELSE IF h \in {"handleInt8Slice", "handleInt16Slice", "handleInt32Slice", "handleInt64Slice"}
    THEN ParseInt(tok, handleBits(h))
    ELSE ParseUint(tok, handleBits(h))

\* The loop of a slice handler: the first failing token ends it with the
\* error and no value.
RECURSIVE sliceLoop(_, _, _, _)
sliceLoop(h, v, i, a) ==
    IF i > Len(v) THEN [panic |-> NoPanic, err |-> NoErr, val |-> a]
    ELSE LET r == convertToken(h, v[i])
         IN IF r.err # NoErr THEN [panic |-> NoPanic, err |-> r.err, val |-> <<>>]
            ELSE sliceLoop(h, v, i + 1, Append(a, r.val))

\* A call of the handler function named h with the tokens v, under the
\* registry reg (handleInt, handleUint and their slices look handlers up).
\* A missing name is Go's nil function.
RECURSIVE CallTypeHandler(_, _, _)

\* The dynamic type of the value the handler function h returns: that of
\* the entry the map literal stores it under, and string for the callers'.
ReturnsType(h) ==
    IF \E t \in DOMAIN BuiltinTypeHandlers : BuiltinTypeHandlers[t] = h
    THEN CHOOSE t \in DOMAIN BuiltinTypeHandlers : BuiltinTypeHandlers[t] = h
    ELSE "string"

InterfaceConversion(got, want) ==
    "interface conversion: interface {} is " \o got \o ", not " \o want

\* h(v) followed by the type assertion r.(want) on the value of a call that
\* returned no error.
callAsserting(h, v, reg, want) ==
    LET r == CallTypeHandler(h, v, reg)
    IN IF r.panic # NoPanic \/ r.err # NoErr THEN r
       ELSE IF ReturnsType(h) # want
       THEN Panicked(InterfaceConversion(ReturnsType(h), want))
       ELSE r

\* The loop of handleIntSlice and handleUintSlice over the handler h looked
\* up for the element type want.
RECURSIVE viaLoop(_, _, _, _, _, _)
viaLoop(h, v, i, a, reg, want) ==
    IF i > Len(v) THEN [panic |-> NoPanic, err |-> NoErr, val |-> a]
    ELSE LET r == callAsserting(h, <<v[i]>>, reg, want)
         IN IF r.panic # NoPanic \/ r.err # NoErr THEN [r EXCEPT !.val = <<>>]
            ELSE viaLoop(h, v, i + 1, Append(a, r.val), reg, want)

Lookup(reg, t) == IF t \in DOMAIN reg THEN reg[t] ELSE "nil"

CallTypeHandler(h, v, reg) ==
    CASE h = "nil" -> Panicked(NilFuncCall)
      [] h = "handleString" -> [panic |-> NoPanic, err |-> NoErr, val |-> Join(v, " ")]
      [] h = "handleStringSlice" -> [panic |-> NoPanic, err |-> NoErr, val |-> v]
      [] h = "typeHandler" -> [panic |-> NoPanic, err |-> NoErr, val |-> "type handler"]
      [] h = "firstToken" ->
            IF Len(v) = 0 THEN Panicked(IndexOutOfRange)
            ELSE [panic |-> NoPanic, err |-> NoErr, val |-> FirstOf(v)]
      [] h = "handleBool" ->
            IF Len(v) = 0 THEN Panicked(IndexOutOfRange) ELSE Ret(parseBool(FirstOf(v)))
      [] h \in {"handleFloat32", "handleFloat64"} ->
            IF Len(v) = 0 THEN Panicked(IndexOutOfRange)
            ELSE Ret(ParseFloat(FirstOf(v), handleBits(h)))
      [] h \in {"handleInt8", "handleInt16", "handleInt32", "handleInt64"} ->
            IF Len(v) = 0 THEN Panicked(IndexOutOfRange)
            ELSE Ret(ParseInt(FirstOf(v), handleBits(h)))
      [] h \in {"handleUint8", "handleUint16", "handleUint32", "handleUint64"} ->
            IF Len(v) = 0 THEN Panicked(IndexOutOfRange)
            ELSE Ret(ParseUint(FirstOf(v), handleBits(h)))
      [] h = "handleInt" -> callAsserting(Lookup(reg, "int64"), v, reg, "int64")
      [] h = "handleUint" -> callAsserting(Lookup(reg, "uint64"), v, reg, "uint64")
      [] h = "handleIntSlice" -> viaLoop(Lookup(reg, "int"), v, 1, <<>>, reg, "int")
      [] h = "handleUintSlice" -> viaLoop(Lookup(reg, "uint"), v, 1, <<>>, reg, "uint")
      [] OTHER -> sliceLoop(h, v, 1, <<>>)

(***************************************************************************)
(* The configuration target and the inputs of Parse.                       *)
(***************************************************************************)
\* The record the caller passes: its fields and their type descriptors
\* (reflect's Type().String()).  The tests' records, cut to one field per
\* kind; Host and Hosts are a canonical name and its own plural.  The sized
\* integer fields are those of the widths whose limits the model can hold,
\* the unsigned ones named as testPrimitives names UInt64.
FieldTypes ==
    [Host |-> "string", Hosts |-> "[]string", Planes |-> "[]string",
     Bool |-> "bool", Int64 |-> "int64", TimeType |-> "time.Time",
     Int8 |-> "int8", Int16 |-> "int16", UInt8 |-> "uint8", UInt16 |-> "uint16",
     Int8s |-> "[]int8", Int16s |-> "[]int16",
     UInt8s |-> "[]uint8", UInt16s |-> "[]uint16"]

FieldNames == DOMAIN FieldTypes

\* A target the caller pre-populated before the call.
DefaultTarget ==
    [Host |-> "default value", Hosts |-> <<"h0">>, Planes |-> <<>>,
     Bool |-> FALSE, Int64 |-> 7, TimeType |-> "0001-01-01",
     Int8 |-> 7, Int16 |-> 7, UInt8 |-> 7, UInt16 |-> 7,
     Int8s |-> <<7>>, Int16s |-> <<7>>, UInt8s |-> <<7>>, UInt16s |-> <<7>>]

\* The record with every field at its type's zero value.
ZeroTarget ==
    [Host |-> "", Hosts |-> <<>>, Planes |-> <<>>, Bool |-> FALSE, Int64 |-> 0,
     TimeType |-> "0001-01-01",
     Int8 |-> 0, Int16 |-> 0, UInt8 |-> 0, UInt16 |-> 0,
     Int8s |-> <<>>, Int16s |-> <<>>, UInt8s |-> <<>>, UInt16s |-> <<>>]

Targets == {DefaultTarget}

\* The files a `source` directive of the model can name; "missing" is not
\* among them and cannot be opened.
SourcedFiles ==
    ("inc" :> <<"# inc", "host d", "plane e">>) @@ ("empty" :> <<"# nothing">>)

\* The physical lines a top-level file is made of.
PhysLines ==
    {"host c", "plane b", " x", "bool false", "int64 nope", "not okay",
     "time-type 2016", "source inc", "source empty", "source missing"}

RECURSIVE SeqsUpTo(_, _)
SeqsUpTo(S, n) ==
    IF n = 0 THEN {<<>>}
    ELSE LET shorter == SeqsUpTo(S, n - 1)
         IN shorter \cup {Append(q, e) : q \in {t \in shorter : Len(t) = n - 1}, e \in S}

Contents == SeqsUpTo(PhysLines, MaxLines)

\* The paths handed to Parse.
Paths == {"main", "missing"}

\* The file system during a call: the file at "main" and the sourced files.
Disk(main) == ("main" :> main) @@ SourcedFiles

\* The Handlers maps handed to Parse: nil (the empty function), and one with
\* the callbacks of TestParseHandlers and TestX.
NilHandlers == <<>>
TestHandlers == [Bool |-> "setBool", Int64 |-> "ohNoes", TimeType |-> "accept"]
HandlerMaps == {NilHandlers, TestHandlers}

\* A call of a per-field callback: [panic, err, c], c being the caller's
\* record after the call (the callbacks are closures over it).
CallHandler(h, values, c) ==
    CASE h = "setBool" ->
            IF Len(values) = 0 THEN [panic |-> IndexOutOfRange, err |-> NoErr, c |-> c]
            ELSE [panic |-> NoPanic, err |-> NoErr,
                  c |-> IF values[1] = "false" THEN [c EXCEPT !.Bool = TRUE] ELSE c]
      [] h = "ohNoes" -> [panic |-> NoPanic, err |-> "oh noes", c |-> c]
      [] h = "accept" -> [panic |-> NoPanic, err |-> NoErr, c |-> c]

(***************************************************************************)
(* Driver.                                                                 *)
(***************************************************************************)
fmterr(file, line, key, err) ==
    file \o " line " \o line \o ": error parsing " \o key \o ": " \o err

\* A setFromHandler that returns the callback's error as it is.
setFromHandlerPlainError(fieldName, values, handlers, c) ==
    IF DOMAIN handlers = {} \/ fieldName \notin DOMAIN handlers
    THEN [has |-> FALSE, panic |-> NoPanic, err |-> NoErr, c |-> c, call |-> ""]
    ELSE LET r == CallHandler(handlers[fieldName], values, c)
         IN [has |-> TRUE, panic |-> r.panic, err |-> r.err,
             c |-> r.c, call |-> handlers[fieldName]]

\* setFromHandler: [has, panic, err, c, call]; call is the callback that ran,
\* or "" when none did.
setFromHandler(fieldName, values, handlers, c) ==
    IF DOMAIN handlers = {} \/ fieldName \notin DOMAIN handlers
    THEN [has |-> FALSE, panic |-> NoPanic, err |-> NoErr, c |-> c, call |-> ""]
    ELSE LET r == CallHandler(handlers[fieldName], values, c)
         IN [has |-> TRUE, panic |-> r.panic,
             err |-> IF r.err # NoErr THEN r.err \o " (from handler)" ELSE NoErr,
             c |-> r.c, call |-> handlers[fieldName]]

\* What field.Set stores in a field holding old when the handler returned v.
StoreValue(old, v) == v

\* A setFromTypeHandler that stores into a zeroed record.
setFromTypeHandlerZeroes(fieldName, value, reg, c) ==
    IF FieldTypes[fieldName] \notin DOMAIN reg
    THEN [has |-> FALSE, panic |-> NoPanic, err |-> NoErr, c |-> c, call |-> ""]
    ELSE LET handler == reg[FieldTypes[fieldName]]
             r == CallTypeHandler(handler, value, reg)
         IN [has |-> TRUE, panic |-> r.panic, err |-> r.err,
             c |-> IF r.panic = NoPanic /\ r.err = NoErr
                   THEN [ZeroTarget EXCEPT ![fieldName] = StoreValue(c[fieldName], r.val)]
                   ELSE c,
             call |-> handler]

\* A setFromTypeHandler that stores what the handler returned with an error.
setFromTypeHandlerStoresOnError(fieldName, value, reg, c) ==
    IF FieldTypes[fieldName] \notin DOMAIN reg
    THEN [has |-> FALSE, panic |-> NoPanic, err |-> NoErr, c |-> c, call |-> ""]
    ELSE LET handler == reg[FieldTypes[fieldName]]
             r == CallTypeHandler(handler, value, reg)
         IN [has |-> TRUE, panic |-> r.panic, err |-> r.err,
             c |-> IF r.panic = NoPanic
                   THEN [c EXCEPT ![fieldName] = StoreValue(@, r.val)]
                   ELSE c,
             call |-> handler]

\* A setFromTypeHandler that appends to a slice what the handler returned.
setFromTypeHandlerAppends(fieldName, value, reg, c) ==
    IF FieldTypes[fieldName] \notin DOMAIN reg
    THEN [has |-> FALSE, panic |-> NoPanic, err |-> NoErr, c |-> c, call |-> ""]
    ELSE LET handler == reg[FieldTypes[fieldName]]
             r == CallTypeHandler(handler, value, reg)
         IN [has |-> TRUE, panic |-> r.panic, err |-> r.err,
             c |-> IF r.panic = NoPanic /\ r.err = NoErr
                   THEN [c EXCEPT ![fieldName] =
                            IF HasPrefix(FieldTypes[fieldName], "[]") THEN @ \o r.val
                            ELSE r.val]
                   ELSE c,
             call |-> handler]

\* setFromTypeHandler: [has, panic, err, c, call].
setFromTypeHandler(fieldName, value, reg, c) ==
    IF FieldTypes[fieldName] \notin DOMAIN reg
    THEN [has |-> FALSE, panic |-> NoPanic, err |-> NoErr, c |-> c, call |-> ""]
    ELSE LET handler == reg[FieldTypes[fieldName]]
             r == CallTypeHandler(handler, value, reg)
         IN [has |-> TRUE, panic |-> r.panic, err |-> r.err,
             c |-> IF r.panic = NoPanic /\ r.err = NoErr
                   THEN [c EXCEPT ![fieldName] = StoreValue(@, r.val)]
                   ELSE c,
             call |-> handler]

ErrUnknownType(t) == "don't know how to set fields of the type " \o t

ElemPanic == "reflect: call of reflect.Value.Elem on struct Value"

\* A loop body that asks the registry before the callbacks.
parseLineRegistryFirst(file, line, handlers, reg, c) ==
    LET v == Split(line[2], " ")
        key == v[1]
        resolved == fieldNameFromKey(key, DOMAIN c)
        fieldName == resolved.name
        h == setFromHandler(fieldName, Tail(v), handlers, c)
        t == setFromTypeHandler(fieldName, Tail(v), reg, c)
        Call(via, r) == <<[via |-> via, key |-> key, field |-> fieldName, fn |-> r.call,
                           args |-> Tail(v), after |-> r.c[fieldName]]>>
    IN IF resolved.err # NoErr
       THEN [panic |-> NoPanic, err |-> fmterr(file, line[1], key, resolved.err),
             c |-> c, calls |-> <<>>]
       ELSE IF t.has
       THEN [panic |-> t.panic,
             err |-> IF t.panic = NoPanic /\ t.err # NoErr
                     THEN fmterr(file, line[1], key, t.err) ELSE NoErr,
             c |-> t.c, calls |-> Call("typehandler", t)]
       ELSE IF h.has
       THEN [panic |-> h.panic,
             err |-> IF h.panic = NoPanic /\ h.err # NoErr
                     THEN fmterr(file, line[1], key, h.err) ELSE NoErr,
             c |-> h.c, calls |-> Call("handler", h)]
       ELSE [panic |-> NoPanic,
             err |-> fmterr(file, line[1], key, ErrUnknownType(FieldTypes[fieldName])),
             c |-> c, calls |-> <<>>]

\* The body of Parse's loop for one logical line <<number, text>>:
\* [panic, err, c, calls]; err is the error Parse returns, calls the
\* callback or type handler that ran: how it was reached (via), the key and
\* the field it was reached for, the function, its tokens, and the field's
\* value when it returned.
parseLine(file, line, handlers, reg, c) ==
    LET v == Split(line[2], " ")
        key == v[1]
        resolved == fieldNameFromKey(key, DOMAIN c)
        fieldName == resolved.name
        h == setFromHandler(fieldName, Tail(v), handlers, c)
        t == setFromTypeHandler(fieldName, Tail(v), reg, c)
        Call(via, r) == <<[via |-> via, key |-> key, field |-> fieldName, fn |-> r.call,
                           args |-> Tail(v), after |-> r.c[fieldName]]>>
    IN IF resolved.err # NoErr
       THEN [panic |-> NoPanic, err |-> fmterr(file, line[1], key, resolved.err),
             c |-> c, calls |-> <<>>]
       ELSE IF h.has
       THEN [panic |-> h.panic,
             err |-> IF h.panic = NoPanic /\ h.err # NoErr
                     THEN fmterr(file, line[1], key, h.err) ELSE NoErr,
             c |-> h.c, calls |-> Call("handler", h)]
       ELSE IF t.has
       THEN [panic |-> t.panic,
             err |-> IF t.panic = NoPanic /\ t.err # NoErr
                     THEN fmterr(file, line[1], key, t.err) ELSE NoErr,
             c |-> t.c, calls |-> Call("typehandler", t)]
       ELSE [panic |-> NoPanic,
             err |-> fmterr(file, line[1], key, ErrUnknownType(FieldTypes[fieldName])),
             c |-> c, calls |-> <<>>]

(***************************************************************************)
(* State.                                                                  *)
(***************************************************************************)
VARIABLES
    TypeHandlers,  \* the process-wide registry
    lastOp,        \* the last operation: "reset" or "restore" for a reset (of a
                   \* registry that held the built-ins, or did not), else "other"
    pc,            \* "idle", or where the current call of Parse is
    content,       \* the physical lines of the file at "main" during the call
    file,          \* Parse's argument file
    handlers,      \* Parse's argument handlers
    c,             \* the record Parse's argument c points to
    c0,            \* that record when Parse was called
    lines,         \* Parse's local lines
    idx,           \* the position of Parse's loop in lines, from 1
    err,           \* the error Parse returned
    panicVal,      \* the value of the panic that ended the call
    log,           \* the callbacks and type handlers the call ran, in order
    must,          \* the outcome of MustParse when it was the caller
    call,          \* a direct call of one function of the package: [fn, arg]
    ret,           \* what that call returned, or NoRet while it has not
    stack          \* the calls of readFile that have not returned

vars == <<TypeHandlers, lastOp, pc, content, file, handlers, c, c0, lines, idx,
          err, panicVal, log, must, call, ret, stack>>

callVars == <<content, file, handlers, c, c0, lines, idx, err, panicVal, log, must, stack>>

\* The variables of a direct call, which Parse and the registry leave alone.
fnVars == <<call, ret, stack>>

NoCall == [fn |-> "", arg |-> <<>>]
NoRet == [pending |-> TRUE]

\* init(): the registry holds the built-in handlers; no call is in progress.
Init ==
    /\ TypeHandlers = BuiltinTypeHandlers
    /\ lastOp = "other"
    /\ pc = "idle"
    /\ content = <<>>
    /\ file = ""
    /\ handlers = NilHandlers
    /\ c = DefaultTarget
    /\ c0 = DefaultTarget
    /\ lines = <<>>
    /\ idx = 0
    /\ err = NoErr
    /\ panicVal = NoPanic
    /\ log = <<>>
    /\ must = "none"
    /\ call = NoCall
    /\ ret = NoRet
    /\ stack = <<>>

(***************************************************************************)
(* Operations on the registry, as the tests apply them between calls.      *)
(***************************************************************************)
\* TypeHandlers[t] = h; an assignment to a nil map is not made.
SetTypeHandler(t, h) ==
    /\ pc = "idle"
    /\ DOMAIN TypeHandlers # {}
    /\ TypeHandlers' = (t :> h) @@ TypeHandlers
    /\ lastOp' = "other"
    /\ UNCHANGED <<pc, callVars, fnVars>>

\* delete(TypeHandlers, t)
DeleteTypeHandler(t) ==
    /\ pc = "idle"
    /\ TypeHandlers' = [d \in DOMAIN TypeHandlers \ {t} |-> TypeHandlers[d]]
    /\ lastOp' = "other"
    /\ UNCHANGED <<pc, callVars, fnVars>>

\* TypeHandlers = nil
NilTypeHandlers ==
    /\ pc = "idle"
    /\ TypeHandlers' = NilMap
    /\ lastOp' = "other"
    /\ UNCHANGED <<pc, callVars, fnVars>>

\* A reset that puts the built-ins back and keeps what callers added.
defaultTypeHandlersKeepsCustom ==
    /\ pc = "idle"
    /\ TypeHandlers' = BuiltinTypeHandlers @@ TypeHandlers
    /\ lastOp' = IF TypeHandlers = BuiltinTypeHandlers THEN "reset" ELSE "restore"
    /\ UNCHANGED <<pc, callVars, fnVars>>

\* defaultTypeHandlers()
defaultTypeHandlers ==
    /\ pc = "idle"
    /\ TypeHandlers' = BuiltinTypeHandlers
    /\ lastOp' = IF TypeHandlers = BuiltinTypeHandlers THEN "reset" ELSE "restore"
    /\ UNCHANGED <<pc, callVars, fnVars>>

\* A RegisterType that leaves a descriptor that has a handler as it is.
RegisterTypeKeepsFirst(t, h) ==
    /\ pc = "idle"
    /\ DOMAIN TypeHandlers # {}
    /\ TypeHandlers' = TypeHandlers @@ (t :> h)
    /\ lastOp' = "other"
    /\ UNCHANGED <<pc, callVars, fnVars>>

\* RegisterType(t, h): the entry of t is inserted or overwritten.  Like the
\* assignment of SetTypeHandler, it needs a registry that is not nil.
RegisterType(t, h) ==
    /\ pc = "idle"
    /\ DOMAIN TypeHandlers # {}
    /\ TypeHandlers' = (t :> h) @@ TypeHandlers
    /\ lastOp' = "other"
    /\ UNCHANGED <<pc, callVars, fnVars>>

\* The registrations callers make: two handlers for the built-in descriptor
\* "string".
RegisterChoices == {<<"string", "typeHandler">>, <<"string", "firstToken">>}

\* The descriptors the tests store handlers under, and delete.
SetChoices == {<<"string", "typeHandler">>, <<"time.Time", "firstToken">>}
DeleteChoices == {"string"}

(***************************************************************************)
(* Parse and MustParse.                                                    *)
(***************************************************************************)
\* A Parse that goes on to its loop when readFile returned an error.
ParseStartIgnoresError ==
    /\ pc = "idle"
    /\ \E path \in Paths : \E main \in (IF path = "main" THEN Contents ELSE {<<>>}) :
       \E r \in {readFile(Disk(main), path)} :
       \E target \in Targets, ptr \in BOOLEAN, hs \in HandlerMaps :
          /\ IF r.panic # NoPanic
             THEN pc' = "panicked" /\ panicVal' = r.panic /\ err' = NoErr /\ lines' = <<>>
             ELSE IF ~ptr
             THEN pc' = "panicked" /\ panicVal' = ElemPanic /\ err' = NoErr /\ lines' = r.lines
             ELSE pc' = "parsing" /\ panicVal' = NoPanic /\ err' = NoErr /\ lines' = r.lines
          /\ content' = main
          /\ file' = path
          /\ handlers' = hs
          /\ c' = target
          /\ c0' = target
    /\ idx' = 1
    /\ log' = <<>>
    /\ must' = "none"
    /\ lastOp' = "other"
    /\ UNCHANGED <<TypeHandlers, fnVars>>

\* Parse up to its loop: readFile, then reflect.ValueOf(c).Elem().  The
\* caller chooses the path, what the file at "main" holds (main; it matters
\* only when "main" is the path), the record (target), whether it passes a
\* pointer to it or the record itself (ptr), and the callbacks (hs).
ParseStart ==
    /\ pc = "idle"
    /\ \E path \in Paths : \E main \in (IF path = "main" THEN Contents ELSE {<<>>}) :
       \E r \in {readFile(Disk(main), path)} :
       \E target \in Targets, ptr \in BOOLEAN, hs \in HandlerMaps :
          /\ IF r.panic # NoPanic
             THEN pc' = "panicked" /\ panicVal' = r.panic /\ err' = NoErr /\ lines' = <<>>
             ELSE IF r.err # NoErr
             THEN pc' = "returned" /\ panicVal' = NoPanic /\ err' = r.err /\ lines' = <<>>
             ELSE IF ~ptr
             THEN pc' = "panicked" /\ panicVal' = ElemPanic /\ err' = NoErr /\ lines' = r.lines
             ELSE pc' = "parsing" /\ panicVal' = NoPanic /\ err' = NoErr /\ lines' = r.lines
          /\ content' = main
          /\ file' = path
          /\ handlers' = hs
          /\ c' = target
          /\ c0' = target
    /\ idx' = 1
    /\ log' = <<>>
    /\ must' = "none"
    /\ lastOp' = "other"
    /\ UNCHANGED <<TypeHandlers, fnVars>>

\* A loop that hands the caller's record back as it was when a line fails.
ParseLineRollsBack ==
    /\ pc = "parsing"
    /\ idx <= Len(lines)
    /\ \E r \in {parseLine(file, lines[idx], handlers, TypeHandlers, c)} :
          /\ c' = IF r.panic = NoPanic /\ r.err # NoErr THEN c0 ELSE r.c
          /\ log' = log \o [k \in 1..Len(r.calls) |-> r.calls[k] @@ [line |-> idx]]
          /\ IF r.panic # NoPanic
             THEN pc' = "panicked" /\ panicVal' = r.panic /\ err' = NoErr /\ idx' = idx
             ELSE IF r.err # NoErr
             THEN pc' = "returned" /\ panicVal' = NoPanic /\ err' = r.err /\ idx' = idx
             ELSE pc' = "parsing" /\ panicVal' = NoPanic /\ err' = NoErr /\ idx' = idx + 1
    /\ UNCHANGED <<fnVars, TypeHandlers, lastOp, content, file, handlers, c0, lines, must>>

\* One iteration of Parse's loop.
ParseLine ==
    /\ pc = "parsing"
    /\ idx <= Len(lines)
    /\ \E r \in {parseLine(file, lines[idx], handlers, TypeHandlers, c)} :
          /\ c' = r.c
          /\ log' = log \o [k \in 1..Len(r.calls) |-> r.calls[k] @@ [line |-> idx]]
          /\ IF r.panic # NoPanic
             THEN pc' = "panicked" /\ panicVal' = r.panic /\ err' = NoErr /\ idx' = idx
             ELSE IF r.err # NoErr
             THEN pc' = "returned" /\ panicVal' = NoPanic /\ err' = r.err /\ idx' = idx
             ELSE pc' = "parsing" /\ panicVal' = NoPanic /\ err' = NoErr /\ idx' = idx + 1
    /\ UNCHANGED <<fnVars, TypeHandlers, lastOp, content, file, handlers, c0, lines, must>>

\* The end of Parse's loop: return nil.
ParseReturn ==
    /\ pc = "parsing"
    /\ idx > Len(lines)
    /\ pc' = "returned"
    /\ err' = NoErr
    /\ UNCHANGED <<fnVars, TypeHandlers, lastOp, content, file, handlers, c, c0, lines, idx,
                   panicVal, log, must>>

\* A MustParse that returns whatever Parse returned.
MustParseReturns ==
    /\ pc = "returned"
    /\ must = "none"
    /\ pc' = "returned" /\ panicVal' = panicVal /\ must' = "returned"
    /\ UNCHANGED <<fnVars, TypeHandlers, lastOp, content, file, handlers, c, c0, lines, idx, err, log>>

\* MustParse, from the return of its call of Parse.  Parse does not depend
\* on its caller, so that the caller is MustParse is decided here.
MustParse ==
    /\ pc = "returned"
    /\ must = "none"
    /\ IF err # NoErr
       THEN pc' = "panicked" /\ panicVal' = err /\ must' = "panicked"
       ELSE pc' = "returned" /\ panicVal' = panicVal /\ must' = "returned"
    /\ UNCHANGED <<fnVars, TypeHandlers, lastOp, content, file, handlers, c, c0, lines, idx, err, log>>

\* The caller goes on after the call returned or its panic was recovered,
\* and drops the call's record.
Finish ==
    /\ pc \in {"returned", "panicked"}
    /\ pc' = "idle"
    /\ content' = <<>>
    /\ file' = ""
    /\ handlers' = NilHandlers
    /\ c' = DefaultTarget
    /\ c0' = DefaultTarget
    /\ lines' = <<>>
    /\ idx' = 0
    /\ err' = NoErr
    /\ panicVal' = NoPanic
    /\ log' = <<>>
    /\ must' = "none"
    /\ UNCHANGED <<TypeHandlers, lastOp, fnVars>>

Next ==
    \/ \E ch \in SetChoices : SetTypeHandler(ch[1], ch[2])
    \/ \E t \in DeleteChoices : DeleteTypeHandler(t)
    \/ \E ch \in RegisterChoices : RegisterType(ch[1], ch[2])
    \/ NilTypeHandlers
    \/ defaultTypeHandlers
    \/ ParseStart
    \/ ParseLine
    \/ ParseReturn
    \/ MustParse
    \/ Finish

Spec == Init /\ [][Next]_vars

(***************************************************************************)
(* Vocabulary of the properties.                                           *)
(***************************************************************************)
\* The call of Parse has ended, and how.
ParseEnded == pc \in {"returned", "panicked"} /\ must = "none"
ParseReturned == pc = "returned" /\ must = "none"
ParseSucceeded == ParseReturned /\ err = NoErr

\* Parse returned the error of the logical line idx.
LineFailed == ParseReturned /\ err # NoErr /\ idx <= Len(lines)

\* The tokens of the logical line k, and the calls recorded for a field or
\* for a logical line.
Tokens(k) == Split(lines[k][2], " ")
CallsFor(f) == {k \in 1..Len(log) : log[k].field = f}
CallsAt(n) == {k \in 1..Len(log) : log[k].line = n}
Last(S) == CHOOSE k \in S : \A j \in S : j <= k

\* The tokens of all the calls recorded for the field f, in order.
RECURSIVE ConcatArgs(_, _)
ConcatArgs(entries, f) ==
    IF Len(entries) = 0 THEN <<>>
    ELSE (IF Head(entries).field = f THEN Head(entries).args ELSE <<>>)
         \o ConcatArgs(Tail(entries), f)

\* The field each key of the model's files names in the model's record, as
\* the tests expect it: Host although Hosts exists, Planes for want of Plane.
FieldOfKey ==
    ("host" :> "Host") @@ ("plane" :> "Planes") @@ ("bool" :> "Bool") @@
    ("int64" :> "Int64") @@ ("time-type" :> "TimeType")

\* The physical lines of the files a logical line can come from.
OriginFiles == {content} \cup {SourcedFiles[f] : f \in DOMAIN SourcedFiles}

\* The physical line N of the file f is not indented and starts with key.
StartsWithKey(f, N, key) ==
    /\ N \in 1..Len(f)
    /\ ~IsSpace(At(f[N], 0))
    /\ Split(f[N], " ")[1] = key

\* The position in content of its j-th line that is not indented.
NotIndented(n) == ~IsSpace(At(content[n], 0))
StartOf(j) ==
    CHOOSE n \in 1..Len(content) :
        NotIndented(n) /\ Cardinality({m \in 1..n : NotIndented(m)}) = j

NoSource == \A n \in 1..Len(content) : ~HasPrefix(content[n], "source ")

(***************************************************************************)
(* C1: when several logical lines of one file reach the same field through *)
(* the registry, a slice field ends as the concatenation, in file order,   *)
(* of the values of those lines, and a scalar field as the value of the    *)
(* last of them.                                                           *)
(***************************************************************************)
C1_ScalarKeepsLast ==
    (ParseSucceeded /\ DOMAIN handlers = {} /\ TypeHandlers = BuiltinTypeHandlers
       /\ CallsFor("Host") # {})
    => c.Host = Join(log[Last(CallsFor("Host"))].args, " ")

C1_SliceConcatenates ==
    (ParseSucceeded /\ DOMAIN handlers = {} /\ TypeHandlers = BuiltinTypeHandlers)
    => c.Planes = ConcatArgs(log, "Planes")

\* C1: a slice field ends as the concatenation of the values of its lines,
\* a scalar field as the value of its last line.
C1_SliceAppendsScalarReplaces == C1_SliceConcatenates /\ C1_ScalarKeepsLast

(***************************************************************************)
(* C2: Parse stops at the first logical line that fails: it returns the    *)
(* error of that line, no call is made for a later line, every earlier     *)
(* line was dispatched, and every field an earlier line set holds the      *)
(* value that line gave it.                                                *)
(***************************************************************************)
C2_StopsAtFirstFailure ==
    LineFailed =>
       /\ HasPrefix(err, file \o " line " \o lines[idx][1] \o ": error parsing "
                         \o Tokens(idx)[1] \o ": ")
       /\ \A k \in 1..Len(log) : log[k].line <= idx
       /\ \A n \in 1..(idx - 1) : CallsAt(n) # {}
       /\ \A f \in FieldNames :
             LET earlier == {k \in CallsFor(f) : log[k].line < idx}
             IN earlier # {} => c[f] = log[Last(earlier)].after

\* A three-line file failed at its second line after its first set a field.
C2_Witness ==
    /\ LineFailed
    /\ Len(lines) = 3 /\ idx = 2
    /\ c.Host = "c" /\ c0.Host # "c"
    /\ Tokens(3)[1] = "plane" /\ c.Planes = c0.Planes

(***************************************************************************)
(* C3: when normalization fails (the path cannot be opened, a sourced file *)
(* cannot be opened, or the first retained line is indented) Parse returns *)
(* that error before any dispatch: the record is as the caller passed it   *)
(* and no callback or type handler has run.                                *)
(***************************************************************************)
FirstIndented == Len(content) > 0 /\ IsSpace(At(content[1], 0))
SourcesMissing == \E n \in 1..Len(content) : content[n] = "source missing"
NormalizationFails ==
    file = "missing" \/ (file = "main" /\ (FirstIndented \/ SourcesMissing))

\* C3: a file whose normalization fails is never dispatched from: the
\* record and the log stay as they were, and what Parse returns is the
\* normalizer's error.  (Where readFile panics ahead of the failure there is
\* no return; nothing is dispatched then either.)
C3_NormalizationFailsBeforeDispatch ==
    NormalizationFails =>
       /\ pc # "parsing"
       /\ c = c0
       /\ log = <<>>
       /\ pc = "returned" =>
             err = IF file = "main" /\ FirstIndented
                   THEN "first line can't be indented"
                   ELSE "open missing: no such file or directory"

\* The last line sources a missing file, after two valid option lines with
\* callbacks at hand.
C3_Witness ==
    /\ ParseReturned
    /\ file = "main" /\ Len(content) = 3
    /\ content[1] = "bool false" /\ content[2] = "host c"
    /\ content[3] = "source missing"
    /\ DOMAIN handlers # {}
    /\ err = "open missing: no such file or directory"

(***************************************************************************)
(* C4: a field that no dispatched logical line resolved to holds the value *)
(* it had when Parse was called, during and after the call, whether the    *)
(* call succeeds, fails or panics.                                         *)
(***************************************************************************)
C4_UnmentionedFieldsKept ==
    \A f \in FieldNames : CallsFor(f) = {} => c[f] = c0[f]

\* A call that set Host and left the pre-populated Hosts alone.
C4_Witness ==
    /\ ParseSucceeded
    /\ CallsFor("Host") # {} /\ c.Host # c0.Host
    /\ CallsFor("Hosts") = {} /\ c.Hosts = <<"h0">>
    /\ CallsFor("Int64") = {} /\ c.Int64 = 7

(***************************************************************************)
(* C5: for each logical line: a callback stored under the resolved field   *)
(* name is the only thing that runs, with the tokens after the key, and    *)
(* the field is not set by Parse; otherwise the registry's handler for the *)
(* field's type descriptor converts the tokens and its result is stored;   *)
(* otherwise Parse fails with "don't know how to set fields of the type".  *)
(* No line is passed without a call.                                       *)
(***************************************************************************)
C5_DispatchPriority ==
    /\ \A k \in 1..Len(log) :
          LET e == log[k]
              done == e.line < idx \/ (pc = "returned" /\ err = NoErr)
          IN /\ e.key = Tokens(e.line)[1]
             /\ e.args = Tail(Tokens(e.line))
             /\ CallsAt(e.line) = {k}
             /\ IF e.field \in DOMAIN handlers
                THEN /\ e.via = "handler"
                     /\ e.fn = handlers[e.field]
                     /\ e.fn \in {"ohNoes", "accept"} => e.after = c0[e.field]
                     /\ (e.fn = "setBool" /\ e.args[1] = "false") => e.after = TRUE
                ELSE /\ e.via = "typehandler"
                     /\ FieldTypes[e.field] \in DOMAIN TypeHandlers
                     /\ e.fn = TypeHandlers[FieldTypes[e.field]]
                     /\ done => e.after = CallTypeHandler(e.fn, e.args, TypeHandlers).val
    /\ pc # "idle" => \A n \in 1..(idx - 1) : CallsAt(n) # {}
    /\ (LineFailed /\ CallsAt(idx) = {} /\ Tokens(idx)[1] \in DOMAIN FieldOfKey) =>
          LET f == FieldOfKey[Tokens(idx)[1]]
          IN /\ f \notin DOMAIN handlers
             /\ FieldTypes[f] \notin DOMAIN TypeHandlers
             /\ HasSuffix(err, ": don't know how to set fields of the type "
                               \o FieldTypes[f])

\* A callback ran for a field whose type has no handler, another for a field
\* whose type has one, and the call went on to succeed.
C5_Witness ==
    /\ ParseSucceeded
    /\ "time.Time" \notin DOMAIN TypeHandlers
    /\ \E k \in CallsFor("TimeType") : log[k].via = "handler"
    /\ \E k \in CallsFor("Bool") : log[k].via = "handler" /\ c.Bool = TRUE
    /\ \E k \in CallsFor("Host") : log[k].via = "typehandler"

(***************************************************************************)
(* C6: the error Parse returns for a failing logical line is               *)
(* "<path> line <N>: error parsing <key>: <cause>": path is Parse's        *)
(* argument, key the first token of the line, N the number of the physical *)
(* line the logical line starts on; the cause of a callback's error ends   *)
(* with " (from handler)", that of a type handler is its error unchanged.  *)
(***************************************************************************)
C6_Cause ==
    LET key == Tokens(idx)[1]
        calls == CallsAt(idx)
    IN IF key \notin DOMAIN FieldOfKey
       THEN "unknown option (field Not or Nots is missing)"
       ELSE IF calls = {}
       THEN "don't know how to set fields of the type " \o FieldTypes[FieldOfKey[key]]
       ELSE IF log[Last(calls)].via = "handler"
       THEN "oh noes (from handler)"
       ELSE "strconv.ParseInt: parsing \"nope\": invalid syntax"

\* C6: the error returned for the failing line idx is the message built
\* from the path, the number of the physical line the logical line starts
\* on, its key and its cause.
C6_ErrorFormat ==
    LineFailed =>
       LET key == Tokens(idx)[1]
           Message(N) == file \o " line " \o ToString(N) \o ": error parsing "
                         \o key \o ": " \o C6_Cause
       IN /\ \E f \in OriginFiles : \E N \in 1..Len(f) :
                StartsWithKey(f, N, key) /\ err = Message(N)
          /\ NoSource => err = Message(StartOf(idx))

\* The failing logical line starts on line 2 and takes line 3 as its
\* continuation; it failed in a callback.
C6_Witness ==
    /\ LineFailed
    /\ content = <<"host c", "int64 nope", " x">>
    /\ Len(log) = 2 /\ log[2].via = "handler" /\ log[2].args = <<"nope", "x">>
    /\ err = "main line 2: error parsing int64: oh noes (from handler)"

(***************************************************************************)
(* C7: a key resolves to the field of its canonical name when the record   *)
(* has it, even when it has the plural too; to the plural only otherwise;  *)
(* and when the record has neither, Parse fails with "unknown option       *)
(* (field Not or Nots is missing)" for the key `not`.                      *)
(***************************************************************************)
C7_CanonicalThenPlural ==
    /\ \A k \in 1..Len(log) :
          /\ log[k].key \in DOMAIN FieldOfKey
          /\ log[k].field = FieldOfKey[log[k].key]
    /\ c.Hosts = c0.Hosts
    /\ pc # "idle" => \A n \in 1..(idx - 1) : Tokens(n)[1] # "not"
    /\ (LineFailed /\ Tokens(idx)[1] = "not") =>
          HasSuffix(err, ": error parsing not: unknown option (field Not or Nots is missing)")

\* host went to Host, plane to Planes, and not to the error.
C7_Witness ==
    /\ LineFailed
    /\ \E k \in CallsFor("Host") : log[k].key = "host"
    /\ \E k \in CallsFor("Planes") : log[k].key = "plane"
    /\ Tokens(idx)[1] = "not"
    /\ err = "main line 3: error parsing not: unknown option (field Not or Nots is missing)"

(***************************************************************************)
(* C8: Parse never ends in a panic, whatever the file, the record and the  *)
(* registry.                                                               *)
(***************************************************************************)
C8_ParseNeverPanics == ~(pc = "panicked" /\ must = "none")

(***************************************************************************)
(* C9: MustParse leaves the record as its call of Parse left it, panics    *)
(* with the error Parse returned when that error is not nil, and returns   *)
(* when it is nil.                                                         *)
(***************************************************************************)
C9_MustParseStep ==
    (pc = "returned" /\ must = "none" /\ must' # "none") =>
       /\ c' = c /\ err' = err /\ log' = log
       /\ IF err # NoErr
          THEN pc' = "panicked" /\ panicVal' = err /\ must' = "panicked"
          ELSE pc' = "returned" /\ panicVal' = NoPanic /\ must' = "returned"

\* C9: every step of MustParse after its call of Parse returned keeps the
\* record, and panics with Parse's error exactly when there is one.  (A
\* panic inside Parse passes through MustParse; it carries no error that
\* Parse returned.)
C9_MustParsePanicsIffError == [][C9_MustParseStep]_vars

\* MustParse panicked with the error of a line, the record partly set.
C9_Witness ==
    /\ must = "panicked" /\ pc = "panicked"
    /\ panicVal = err /\ err # NoErr
    /\ c # c0

(***************************************************************************)
(* C10: after a reset the registry is the one of process initialization:   *)
(* the 14 scalar and the 14 slice descriptors, each with its built-in      *)
(* handler, and nothing else.                                              *)
(***************************************************************************)
ScalarDescriptors ==
    {"string", "bool", "float32", "float64", "int", "int8", "int16", "int32",
     "int64", "uint", "uint8", "uint16", "uint32", "uint64"}
SliceDescriptors == {"[]" \o d : d \in ScalarDescriptors}

\* The name of the built-in handler of a descriptor: handleInt8 for int8,
\* handleInt8Slice for []int8.
BuiltinName(d) ==
    LET slice == HasPrefix(d, "[]")
        base == IF slice THEN Slice(d, 2, Len(d)) ELSE d
    IN "handle" \o ToUpperChar(At(base, 0)) \o Slice(base, 1, Len(base))
       \o (IF slice THEN "Slice" ELSE "")

\* C10: after a reset the registry holds exactly the 28 built-in entries.
C10_ResetRestoresBuiltins ==
    lastOp \in {"reset", "restore"} =>
       /\ DOMAIN TypeHandlers = ScalarDescriptors \cup SliceDescriptors
       /\ Cardinality(ScalarDescriptors) = 14
       /\ Cardinality(SliceDescriptors) = 14
       /\ Cardinality(DOMAIN TypeHandlers) = 28
       /\ \A d \in DOMAIN TypeHandlers : TypeHandlers[d] = BuiltinName(d)

\* A reset of a registry that did not hold the built-ins.
C10_Witness == lastOp = "restore" /\ pc = "idle"

(***************************************************************************)
(* C11.  A registration inserts or overwrites the entry of its descriptor  *)
(* and changes no other entry, a registration that repeats the entry       *)
(* changes nothing, no step of a call of Parse changes the registry, and   *)
(* every call of a type handler that Parse makes is a call of the handler  *)
(* the registry holds for the field's type: the last one registered for    *)
(* it, a built-in descriptor included.  Every line Parse has got past,     *)
(* for a field without a callback, has had that call.                      *)
(***************************************************************************)
C11_RegisterStep ==
    /\ \A ch \in RegisterChoices :
          RegisterType(ch[1], ch[2]) =>
             /\ ch[1] \in DOMAIN TypeHandlers'
             /\ TypeHandlers'[ch[1]] = ch[2]
             /\ \A d \in (DOMAIN TypeHandlers \cup DOMAIN TypeHandlers') \ {ch[1]} :
                   /\ d \in DOMAIN TypeHandlers /\ d \in DOMAIN TypeHandlers'
                   /\ TypeHandlers'[d] = TypeHandlers[d]
             /\ (ch[1] \in DOMAIN TypeHandlers /\ TypeHandlers[ch[1]] = ch[2])
                   => TypeHandlers' = TypeHandlers
    /\ pc # "idle" => TypeHandlers' = TypeHandlers

C11_DispatchesToRegistered ==
    pc # "idle" =>
       /\ \A k \in 1..Len(log) :
             log[k].via = "typehandler" =>
                /\ FieldTypes[log[k].field] \in DOMAIN TypeHandlers
                /\ log[k].fn = TypeHandlers[FieldTypes[log[k].field]]
       /\ \A n \in 1..Len(lines) :
             (n < idx /\ FieldOfKey[Tokens(n)[1]] \notin DOMAIN handlers) =>
                \E k \in CallsAt(n) :
                   /\ log[k].via = "typehandler"
                   /\ log[k].fn = TypeHandlers[FieldTypes[FieldOfKey[Tokens(n)[1]]]]

C11_LastRegistrationWins == []C11_DispatchesToRegistered /\ [][C11_RegisterStep]_vars

\* Parse returned after it stored, in a field of the built-in type string,
\* what the handler registered for "string" made of the tokens.
C11_Witness ==
    /\ ParseSucceeded
    /\ Len(log) = 2
    /\ log[2].fn = "firstToken"
    /\ FieldTypes[log[2].field] = "string"
    /\ c[log[2].field] = log[2].args[1]
    /\ c[log[2].field] # c0[log[2].field]

(***************************************************************************)
(* Arity validators.  A validator is a type handler: it returns its tokens *)
(* (nil is FALSE) or no value (nil is TRUE) and an error.                  *)
(***************************************************************************)
errValidateNoValue == "does not accept any values"
errValidateSingleValue == "must have exactly one value"
errValidateValueLimitMore(min, n) ==
    "must have more than " \o ToString(min) \o " values (has: " \o ToString(n) \o ")"
errValidateValueLimitFewer(max, n) ==
    "must have fewer than " \o ToString(max) \o " values (has: " \o ToString(n) \o ")"

Accept(v) == [nil |-> FALSE, val |-> v, err |-> NoErr]
Reject(e) == [nil |-> TRUE, val |-> <<>>, err |-> e]

ValidateNoValue(v) == IF Len(v) # 0 THEN Reject(errValidateNoValue) ELSE Accept(v)

ValidateSingleValue(v) == IF Len(v) # 1 THEN Reject(errValidateSingleValue) ELSE Accept(v)

\* A ValidateValueLimit whose upper limit counts whenever it is not 0.
ValidateValueLimitMaxBelowMin(min, max, v) ==
    IF Len(v) < min THEN Reject(errValidateValueLimitMore(min, Len(v)))
    ELSE IF max # 0 /\ Len(v) > max THEN Reject(errValidateValueLimitFewer(max, Len(v)))
    ELSE Accept(v)

ValidateValueLimit(min, max, v) ==
    IF Len(v) < min THEN Reject(errValidateValueLimitMore(min, Len(v)))
    ELSE IF max # 0 /\ max >= min /\ Len(v) > max
    THEN Reject(errValidateValueLimitFewer(max, Len(v)))
    ELSE Accept(v)

(***************************************************************************)
(* Direct calls of the functions of the package, one call in a behaviour:  *)
(* the caller chose the function and its arguments (call), and the call    *)
(* returns (ret).                                                          *)
(***************************************************************************)
\* The longest token sequence handed to a validator or a type handler, and
\* the largest limit handed to ValidateValueLimit.
MaxTokens == 3
MaxLimit == 3

TokenSeqs == SeqsUpTo({"1", "x"}, MaxTokens + 1)

ValidateCalls ==
    {[fn |-> f, arg |-> [v |-> v]] : f \in {"ValidateNoValue", "ValidateSingleValue"},
                                     v \in TokenSeqs}
    \cup {[fn |-> "ValidateValueLimit", arg |-> [min |-> min, max |-> max, v |-> v]] :
             min \in 0..MaxLimit, max \in 0..MaxLimit, v \in TokenSeqs}

\* The lines of one key and up to MaxTokens + 1 value tokens, as readFile
\* hands them to the loop of Parse, for the numeric scalar field of the
\* target.
NumericKeys == {"int64"}

ParseLineCalls ==
    {[fn |-> "parseLine", arg |-> [file |-> "main", line |-> <<"1", Join(<<k>> \o v, " ")>>]] :
        k \in NumericKeys, v \in TokenSeqs}

\* The tokens handed to parseBool: the words it knows in four spellings, and
\* tokens it does not know.
TrueWords == {"1", "true", "yes", "on", "enable", "enabled"}
FalseWords == {"0", "false", "no", "off", "disable", "disabled"}

Capitalized(w) == ToUpperChar(At(w, 0)) \o Slice(w, 1, Len(w))
LastUpper(w) == Slice(w, 0, Len(w) - 1) \o ToUpperChar(At(w, Len(w) - 1))

BoolTokens ==
    UNION {{w, ToUpper(w), Capitalized(w), LastUpper(w)} : w \in TrueWords \cup FalseWords}
    \cup {"", "2", "01", "-1", "t", "f", "y", "n", "tru", "truee", "onn", "of", "nope",
          "enables", "disable-d", "what?"}

ParseBoolCalls == {[fn |-> "parseBool", arg |-> [v |-> t]] : t \in BoolTokens}

HandleBoolSliceCalls ==
    {[fn |-> "handleBoolSlice", arg |-> [v |-> v]] :
        v \in SeqsUpTo({"YES", "Off", "what?"}, MaxTokens + 1)}

\* The record and the keys of TestInflect: a field named in the singular, one
\* named in the plural, and each written both ways.
InflectFields == {"Key", "Planes"}
InflectKeys == {"key", "keys", "plane", "planes"}

FieldNameFromKeyCalls ==
    {[fn |-> "fieldNameFromKey", arg |-> [key |-> k, fields |-> InflectFields]] :
        k \in InflectKeys}

(***************************************************************************)
(* FindConfig.  env is the environment (a variable that is not set is ""), *)
(* exists the set of the paths os.Stat succeeds on.                        *)
(***************************************************************************)
\* strings.TrimLeft(s, "/") and strings.TrimRight(s, "/")
RECURSIVE TrimLeftSlash(_)
TrimLeftSlash(s) ==
    IF Len(s) > 0 /\ At(s, 0) = "/" THEN TrimLeftSlash(Slice(s, 1, Len(s))) ELSE s

RECURSIVE TrimRightSlash(_)
TrimRightSlash(s) ==
    IF Len(s) > 0 /\ At(s, Len(s) - 1) = "/" THEN TrimRightSlash(Slice(s, 0, Len(s) - 1)) ELSE s

\* The first location that exists, from the i-th on, or "".
RECURSIVE firstExisting(_, _, _)
firstExisting(locations, exists, i) ==
    IF i > Len(locations) THEN ""
    ELSE IF locations[i] \in exists THEN locations[i]
    ELSE firstExisting(locations, exists, i + 1)

FindConfig(env, exists, name) ==
    LET f == TrimLeftSlash(name)
        xdg == IF env.XDG_CONFIG # "" THEN <<TrimRightSlash(env.XDG_CONFIG) \o "/" \o f>>
               ELSE <<>>
        home == IF env.HOME # "" THEN <<env.HOME \o "/." \o f>> ELSE <<>>
        locations == xdg \o home \o <<"/etc/" \o f, "/usr/local/etc/" \o f,
                                      "/usr/pkg/etc/" \o f, "./" \o f>>
    IN firstExisting(locations, exists, 1)

\* The calls of FindConfig: the user's home is /home/u when HOME is set, and
\* a file named app is at any of the places.
HomeDir == "/home/u"

Places ==
    {"/home/u/.config/app", "/srv/conf/app", "/home/u/.app", "/etc/app",
     "/usr/local/etc/app", "/usr/pkg/etc/app", "./app"}

FindConfigCalls ==
    {[fn |-> "FindConfig",
      arg |-> [env |-> [XDG_CONFIG |-> x, HOME |-> h], exists |-> e, file |-> f]] :
        x \in {"", "/home/u/.config", "/srv/conf/"}, h \in {"", HomeDir},
        e \in SUBSET Places, f \in {"app", "/app"}}

\* The files readFile is called on: up to MaxLines physical lines, among
\* them continuation lines, comments, a trailing comment after two spaces,
\* and source directives of files of two, one and no logical lines and of a
\* file that sources another.
ReadLines ==
    {"host a", " b", "host  # note", "", " # c", "source inc", "source one", "source empty",
     "source nest"}

\* The file nest sources the file one, and has a line of its own after it.
ReadDisk(main) ==
    ("main" :> main) @@ ("one" :> <<"key v">>)
    @@ ("nest" :> <<"source one", "", "nest n">>) @@ SourcedFiles

ReadFileCalls ==
    {[fn |-> "readFile", arg |-> [content |-> f]] : f \in SeqsUpTo(ReadLines, MaxLines)}

\* The strings of up to n characters of the set A.
RECURSIVE StringsUpTo(_, _)
StringsUpTo(A, n) ==
    IF n = 0 THEN {""}
    ELSE LET shorter == StringsUpTo(A, n - 1)
         IN shorter \cup {s \o ch : s \in {t \in shorter : Len(t) = n - 1}, ch \in A}

\* The longest line handed to collapseWhitespace and to removeComments.
MaxChars == 4

CollapseWhitespaceCalls ==
    {[fn |-> "collapseWhitespace", arg |-> [line |-> s]] :
        s \in StringsUpTo({"a", " ", "\t", "\\"}, MaxChars)}

RemoveCommentsCalls ==
    {[fn |-> "removeComments", arg |-> [line |-> s]] :
        s \in StringsUpTo({"a", "\\", "#"}, MaxChars)}

\* Lines of letters and backslashes, long enough for a run of four
\* backslashes between two letters.
CollapseBackslashCalls ==
    {[fn |-> "collapseWhitespace", arg |-> [line |-> s]] :
        s \in StringsUpTo({"a", "\\"}, MaxChars + 2)}

\* A record with a field for a URL, one for a user id and one whose name only
\* begins with the letters of an acronym, and the keys written for them.
AcronymFields == {"BaseURL", "UID", "Idle"}
AcronymKeys == {"base-url", "uid", "idle", "base-uid", "idle-url"}

AcronymCalls ==
    {[fn |-> "fieldNameFromKey", arg |-> [key |-> k, fields |-> AcronymFields]] :
        k \in AcronymKeys}

\* Lines for the sized integer fields: the limits of each width, the values
\* next to them on both sides, and a value inside every range.
SizedScalarKeys == {"int8", "int16", "uint8", "uint16"}
SizedSliceKeys == {"int8s", "int16s", "uint8s", "uint16s"}
LimitTokens ==
    {"5", "-1", "127", "128", "-128", "-129", "255", "256",
     "32767", "32768", "-32768", "-32769", "65535", "65536"}

SizedIntCalls ==
    {[fn |-> "parseLine", arg |-> [file |-> "main", line |-> <<"1", k \o " " \o t>>]] :
        k \in SizedScalarKeys \cup SizedSliceKeys, t \in LimitTokens}
    \cup
    {[fn |-> "parseLine",
      arg |-> [file |-> "main", line |-> <<"1", k \o " " \o t \o " " \o u>>]] :
        k \in SizedSliceKeys, t \in LimitTokens, u \in LimitTokens}

\* The registries a built-in handler is called under: the defaults, and the
\* defaults with the entry of one type replaced by a caller's handler or
\* deleted.
ChangedTypes == {"int64", "uint64", "int", "uint"}
ChangedRegistries ==
    {BuiltinTypeHandlers}
    \cup {[BuiltinTypeHandlers EXCEPT ![t] = "firstToken"] : t \in ChangedTypes}
    \cup {[u \in DOMAIN BuiltinTypeHandlers \ {t} |-> BuiltinTypeHandlers[u]] :
             t \in ChangedTypes}

\* The built-in handlers called directly, with one or two tokens.
CalledBuiltins ==
    {"handleInt", "handleUint", "handleIntSlice", "handleUintSlice",
     "handleInt64", "handleUint64Slice"}

BuiltinCalls ==
    {[fn |-> h, arg |-> [v |-> v, reg |-> reg]] :
        h \in CalledBuiltins,
        v \in SeqsUpTo({"5", "nope"}, 2) \ {<<>>},
        reg \in ChangedRegistries}

\* Lines that follow an earlier line of their file, for a slice of numbers
\* whose second token is malformed, for a key no field answers to and for a
\* field of a type without a handler, and the same slice well-formed; under
\* the defaults, the defaults without the slice's entry, and the nil map.
DispatchLines ==
    {"int8s 5 nope", "int8s 5 6", "int8 nope", "woot field", "time-type 2016",
     "hosts a b"}
DispatchRegistries ==
    {BuiltinTypeHandlers,
     [u \in DOMAIN BuiltinTypeHandlers \ {"[]int8"} |-> BuiltinTypeHandlers[u]],
     NilMap}

DispatchCalls ==
    {[fn |-> "parseLine", arg |-> [file |-> "main", line |-> <<"2", l>>, reg |-> reg]] :
        l \in DispatchLines, reg \in DispatchRegistries}

\* Parse as one call: readFile, then the loop over the logical lines from
\* the line k on, up to the first line that fails.  [panic, err, c].  Each
\* step is written as an operator of the result of the call it follows.
RECURSIVE parseLoop(_, _, _, _, _, _)
afterLine(path, ls, k, hs, reg, r) ==
    IF r.panic # NoPanic \/ r.err # NoErr
    THEN [panic |-> r.panic, err |-> r.err, c |-> r.c]
    ELSE parseLoop(path, ls, k + 1, hs, reg, r.c)

parseLoop(path, ls, k, hs, reg, target) ==
    IF k > Len(ls) THEN [panic |-> NoPanic, err |-> NoErr, c |-> target]
    ELSE afterLine(path, ls, k, hs, reg, parseLine(path, ls[k], hs, reg, target))

afterRead(path, hs, reg, target, r) ==
    IF r.panic # NoPanic \/ r.err # NoErr
    THEN [panic |-> r.panic, err |-> r.err, c |-> target]
    ELSE parseLoop(path, r.lines, 1, hs, reg, target)

ParseCall(disk, path, hs, reg, target) ==
    afterRead(path, hs, reg, target, readFile(disk, path))

\* n calls of Parse in a row with one record, up to the first that panics:
\* the results of the calls, each starting from the record the one before
\* it left.
RECURSIVE parseRuns(_, _, _, _, _, _)
afterRun(n, disk, path, hs, reg, r) ==
    IF r.panic # NoPanic THEN <<r>>
    ELSE <<r>> \o parseRuns(n - 1, disk, path, hs, reg, r.c)

parseRuns(n, disk, path, hs, reg, target) ==
    IF n = 0 THEN <<>>
    ELSE afterRun(n, disk, path, hs, reg, ParseCall(disk, path, hs, reg, target))

\* Files parsed twice in a row into one record: lines for a scalar and for
\* slices, a line that repeats a field, a sourced file, and a line that fails.
TwiceLines == {"host c", "hosts a b", "hosts z", "int8s 5 6", "source inc", "int64 nope"}

ParseTwiceCalls ==
    {[fn |-> "ParseTwice", arg |-> [content |-> f]] : f \in SeqsUpTo(TwiceLines, MaxLines)}

\* Every call a behaviour can start from.
FnCalls ==
    ValidateCalls
    \cup ParseLineCalls
    \cup ParseBoolCalls
    \cup HandleBoolSliceCalls
    \cup FieldNameFromKeyCalls
    \cup FindConfigCalls
    \cup ReadFileCalls
    \cup CollapseWhitespaceCalls
    \cup RemoveCommentsCalls
    \cup CollapseBackslashCalls
    \cup AcronymCalls
    \cup SizedIntCalls
    \cup BuiltinCalls
    \cup DispatchCalls
    \cup ParseTwiceCalls

InitFn ==
    /\ call \in FnCalls
    /\ TypeHandlers = IF "reg" \in DOMAIN call.arg THEN call.arg.reg
                      ELSE BuiltinTypeHandlers
    /\ lastOp = "other"
    /\ pc = "idle"
    /\ content = <<>>
    /\ file = ""
    /\ handlers = NilHandlers
    /\ c = DefaultTarget
    /\ c0 = DefaultTarget
    /\ lines = <<>>
    /\ idx = 0
    /\ err = NoErr
    /\ panicVal = NoPanic
    /\ log = <<>>
    /\ must = "none"
    /\ ret = NoRet
    /\ stack = <<>>

\* The call of f has not returned, and has.
Pending(f) == call.fn = f /\ "pending" \in DOMAIN ret
Returned(f) == call.fn = f /\ "pending" \notin DOMAIN ret

CallValidateNoValue ==
    /\ Pending("ValidateNoValue")
    /\ ret' = ValidateNoValue(call.arg.v)
    /\ UNCHANGED <<call, TypeHandlers, lastOp, pc, callVars>>

CallValidateSingleValue ==
    /\ Pending("ValidateSingleValue")
    /\ ret' = ValidateSingleValue(call.arg.v)
    /\ UNCHANGED <<call, TypeHandlers, lastOp, pc, callVars>>

CallValidateValueLimit ==
    /\ Pending("ValidateValueLimit")
    /\ ret' = ValidateValueLimit(call.arg.min, call.arg.max, call.arg.v)
    /\ UNCHANGED <<call, TypeHandlers, lastOp, pc, callVars>>

\* The body of Parse's loop for the first line of a file, with no callbacks.
CallParseLine ==
    /\ Pending("parseLine")
    /\ ret' = parseLine(call.arg.file, call.arg.line, NilHandlers, TypeHandlers, c)
    /\ UNCHANGED <<call, TypeHandlers, lastOp, pc, callVars>>

CallParseBool ==
    /\ Pending("parseBool")
    /\ ret' = parseBool(call.arg.v)
    /\ UNCHANGED <<call, TypeHandlers, lastOp, pc, callVars>>

CallHandleBoolSlice ==
    /\ Pending("handleBoolSlice")
    /\ ret' = CallTypeHandler("handleBoolSlice", call.arg.v, TypeHandlers)
    /\ UNCHANGED <<call, TypeHandlers, lastOp, pc, callVars>>

CallFieldNameFromKey ==
    /\ Pending("fieldNameFromKey")
    /\ ret' = fieldNameFromKey(call.arg.key, call.arg.fields)
    /\ UNCHANGED <<call, TypeHandlers, lastOp, pc, callVars>>

CallFindConfig ==
    /\ Pending("FindConfig")
    /\ ret' = [path |-> FindConfig(call.arg.env, call.arg.exists, call.arg.file)]
    /\ UNCHANGED <<call, TypeHandlers, lastOp, pc, callVars>>

CallReadFile ==
    /\ Pending("readFile")
    /\ ret' = readFile(ReadDisk(call.arg.content), "main")
    /\ UNCHANGED <<call, TypeHandlers, lastOp, pc, callVars>>

CallCollapseWhitespace ==
    /\ Pending("collapseWhitespace")
    /\ ret' = collapseWhitespace(call.arg.line)
    /\ UNCHANGED <<call, TypeHandlers, lastOp, pc, callVars>>

CallRemoveComments ==
    /\ Pending("removeComments")
    /\ ret' = removeComments(call.arg.line)
    /\ UNCHANGED <<call, TypeHandlers, lastOp, pc, callVars>>

CallBuiltin ==
    /\ call.fn \in CalledBuiltins
    /\ "pending" \in DOMAIN ret
    /\ ret' = CallTypeHandler(call.fn, call.arg.v, TypeHandlers)
    /\ UNCHANGED <<call, TypeHandlers, lastOp, pc, callVars>>

\* Parse(&c, "main", nil) and, when it has returned, Parse(&c, "main", nil)
\* again: the second call starts from the record the first one left.
CallParseTwice ==
    /\ Pending("ParseTwice")
    /\ ret' = [runs |-> parseRuns(2, Disk(call.arg.content), "main", NilHandlers,
                                  TypeHandlers, c)]
    /\ UNCHANGED <<call, TypeHandlers, lastOp, pc, callVars>>

\* The call returns.
NextFn ==
    \/ CallValidateNoValue
    \/ CallValidateSingleValue
    \/ CallValidateValueLimit
    \/ CallParseLine
    \/ CallParseBool
    \/ CallHandleBoolSlice
    \/ CallFieldNameFromKey
    \/ CallFindConfig
    \/ CallReadFile
    \/ CallCollapseWhitespace
    \/ CallRemoveComments
    \/ CallBuiltin
    \/ CallParseTwice

SpecFn == InitFn /\ [][NextFn]_vars

(***************************************************************************)
(* readFile and Parse step by step: one physical line, one return of a     *)
(* readFile, one logical line at a time.  stack holds the calls of         *)
(* readFile that have not returned, the innermost last; each keeps the     *)
(* file it reads, the line it is about to read (k, the code's no + 1), the *)
(* lines it has and the code's counter i.                                  *)
(***************************************************************************)
\* The calls of readFile the process has room for.
MaxDepth == 4

\* Files that source themselves, directly and through another file.
CyclicFiles ==
    ("loop" :> <<"host l", "source loop">>) @@
    ("ping" :> <<"# ping", "source pong">>) @@
    ("pong" :> <<"host p", "source ping", "host q">>)

GraphLines ==
    {"host c", " x", "", "source inc", "source loop", "source ping", "source missing"}
GraphContents == SeqsUpTo(GraphLines, MaxLines)
GraphDisk(main) == ("main" :> main) @@ SourcedFiles @@ CyclicFiles

Frame(f) == [file |-> f, k |-> 1, lines |-> <<>>, i |-> 0]

InitRead ==
    /\ TypeHandlers = BuiltinTypeHandlers
    /\ lastOp = "other"
    /\ pc = "idle"
    /\ content \in GraphContents
    /\ file = ""
    /\ handlers = NilHandlers
    /\ c = DefaultTarget
    /\ c0 = DefaultTarget
    /\ lines = <<>>
    /\ idx = 0
    /\ err = NoErr
    /\ panicVal = NoPanic
    /\ log = <<>>
    /\ must = "none"
    /\ call = NoCall
    /\ ret = NoRet
    /\ stack = <<>>

\* Parse(&c, "main", nil) calls readFile("main"), which opens the file.
ReadOpen ==
    /\ pc = "idle"
    /\ pc' = "reading"
    /\ file' = "main"
    /\ stack' = <<Frame("main")>>
    /\ idx' = 1
    /\ UNCHANGED <<TypeHandlers, lastOp, content, handlers, c, c0, lines, err, panicVal,
                   log, must, call, ret>>

\* readFile returns an error, and every readFile above it and Parse return it.
ReadFails(e) ==
    /\ pc' = "returned"
    /\ err' = e
    /\ stack' = <<>>
    /\ UNCHANGED panicVal

ReadPanics(p) ==
    /\ pc' = "panicked"
    /\ panicVal' = p
    /\ stack' = <<>>
    /\ UNCHANGED err

\* A scanner loop that goes on to the next line when the file a source
\* directive names is one that is being read.
ReadStepSkipsOpenFile ==
    /\ pc = "reading"
    /\ LET d == Len(stack)
           fr == stack[d]
           disk == GraphDisk(content)
           raw == disk[fr.file][fr.k]
           isIndented == Len(raw) > 0 /\ IsSpace(At(raw, 0))
           trimmed == TrimSpace(raw)
           rc == removeComments(trimmed)
           cw == collapseWhitespace(rc.v)
           line == cw.v
           target == Slice(line, 7, Len(line))
           Goes(ls, n) ==
               /\ stack' = [stack EXCEPT ![d] = [@ EXCEPT !.k = @ + 1, !.lines = ls, !.i = n]]
               /\ UNCHANGED <<pc, err, panicVal>>
       IN /\ fr.k <= Len(disk[fr.file])
          /\ IF trimmed = "" \/ At(trimmed, 0) = "#" THEN Goes(fr.lines, fr.i)
             ELSE IF rc.panic # NoPanic THEN ReadPanics(rc.panic)
             ELSE IF cw.panic # NoPanic THEN ReadPanics(cw.panic)
             ELSE IF isIndented
             THEN IF fr.i = 0 THEN ReadFails(ErrFirstIndented)
                  ELSE IF fr.i - 1 >= Len(fr.lines) THEN ReadPanics(IndexOutOfRange)
                  ELSE Goes([fr.lines EXCEPT ![fr.i][2] = @ \o " " \o line], fr.i)
             ELSE IF HasPrefix(line, "source ")
             THEN IF target \notin DOMAIN disk THEN ReadFails(OpenError(target))
                  ELSE IF \E j \in 1..d : stack[j].file = target THEN Goes(fr.lines, fr.i + 1)
                  ELSE IF d >= MaxDepth
                  THEN pc' = "exhausted" /\ UNCHANGED <<stack, err, panicVal>>
                  ELSE /\ stack' = Append(stack, Frame(target))
                       /\ UNCHANGED <<pc, err, panicVal>>
             ELSE Goes(Append(fr.lines, <<ToString(fr.k), line>>), fr.i + 1)
    /\ UNCHANGED <<TypeHandlers, lastOp, content, file, handlers, c, c0, lines, idx, log,
                   must, call, ret>>

\* One iteration of the scanner loop of the innermost readFile: the line k
\* of its file.  A source directive calls readFile, which opens the file it
\* names or fails; the call is made whatever the files being read are, and
\* the process ends when it has no room for it.
ReadStep ==
    /\ pc = "reading"
    /\ LET d == Len(stack)
           fr == stack[d]
           disk == GraphDisk(content)
           raw == disk[fr.file][fr.k]
           isIndented == Len(raw) > 0 /\ IsSpace(At(raw, 0))
           trimmed == TrimSpace(raw)
           rc == removeComments(trimmed)
           cw == collapseWhitespace(rc.v)
           line == cw.v
           target == Slice(line, 7, Len(line))
           Goes(ls, n) ==
               /\ stack' = [stack EXCEPT ![d] = [@ EXCEPT !.k = @ + 1, !.lines = ls, !.i = n]]
               /\ UNCHANGED <<pc, err, panicVal>>
       IN /\ fr.k <= Len(disk[fr.file])
          /\ IF trimmed = "" \/ At(trimmed, 0) = "#" THEN Goes(fr.lines, fr.i)
             ELSE IF rc.panic # NoPanic THEN ReadPanics(rc.panic)
             ELSE IF cw.panic # NoPanic THEN ReadPanics(cw.panic)
             ELSE IF isIndented
             THEN IF fr.i = 0 THEN ReadFails(ErrFirstIndented)
                  ELSE IF fr.i - 1 >= Len(fr.lines) THEN ReadPanics(IndexOutOfRange)
                  ELSE Goes([fr.lines EXCEPT ![fr.i][2] = @ \o " " \o line], fr.i)
             ELSE IF HasPrefix(line, "source ")
             THEN IF target \notin DOMAIN disk THEN ReadFails(OpenError(target))
                  ELSE IF d >= MaxDepth
                  THEN pc' = "exhausted" /\ UNCHANGED <<stack, err, panicVal>>
                  ELSE /\ stack' = Append(stack, Frame(target))
                       /\ UNCHANGED <<pc, err, panicVal>>
             ELSE Goes(Append(fr.lines, <<ToString(fr.k), line>>), fr.i + 1)
    /\ UNCHANGED <<TypeHandlers, lastOp, content, file, handlers, c, c0, lines, idx, log,
                   must, call, ret>>

\* The scanner of the innermost readFile is at the end of its file: the call
\* returns its lines, to the readFile that sourced the file, which appends
\* them and counts the directive, or to Parse, which starts its loop.
ReadReturn ==
    /\ pc = "reading"
    /\ LET d == Len(stack)
           fr == stack[d]
       IN /\ fr.k > Len(GraphDisk(content)[fr.file])
          /\ IF d = 1
             THEN /\ stack' = <<>>
                  /\ lines' = fr.lines
                  /\ pc' = "parsing"
             ELSE /\ stack' = [SubSeq(stack, 1, d - 1) EXCEPT ![d - 1] =
                                  [@ EXCEPT !.k = @ + 1, !.lines = @ \o fr.lines, !.i = @ + 1]]
                  /\ UNCHANGED <<lines, pc>>
    /\ UNCHANGED <<TypeHandlers, lastOp, content, file, handlers, c, c0, idx, err, panicVal,
                   log, must, call, ret>>

NextRead ==
    \/ ReadOpen
    \/ ReadStep
    \/ ReadReturn
    \/ ParseLine
    \/ ParseReturn

\* The states in which ReadStep and ParseLine can be taken; each changes k,
\* the stack, idx or pc.
CanReadStep ==
    /\ pc = "reading"
    /\ stack[Len(stack)].k <= Len(GraphDisk(content)[stack[Len(stack)].file])
CanParseLine == pc = "parsing" /\ idx <= Len(lines)

\* A call that has started takes its next step: the program is sequential
\* and nothing but the process itself holds it back.  For ReadStep and
\* ParseLine weak fairness is written with the states they are enabled in.
SpecRead ==
    /\ InitRead /\ [][NextRead]_vars
    /\ WF_vars(ReadOpen) /\ WF_vars(ReadReturn) /\ WF_vars(ParseReturn)
    /\ ([]<>(~CanReadStep) \/ []<><<ReadStep>>_vars)
    /\ ([]<>(~CanParseLine) \/ []<><<ParseLine>>_vars)

(***************************************************************************)
(* C12.  ValidateNoValue accepts exactly the empty token sequence and      *)
(* ValidateSingleValue exactly the sequences of one token.                 *)
(* ValidateValueLimit(min, max) rejects fewer than min tokens with the     *)
(* "must have more than <min> values" message, rejects more than max with  *)
(* the "must have fewer than <max> values" message unless max is 0 or      *)
(* below min, and accepts every other count.  An accepting validator       *)
(* returns its tokens as they are, a rejecting one no value and its error. *)
(***************************************************************************)
C12_Outcome(accepts, message) ==
    IF accepts
    THEN ~ret.nil /\ ret.val = call.arg.v /\ ret.err = NoErr
    ELSE ret.nil /\ ret.err # NoErr /\ HasPrefix(ret.err, message)

C12_ValidatorsAcceptExactly ==
    LET n == Len(call.arg.v)
    IN /\ Returned("ValidateNoValue") => C12_Outcome(n = 0, errValidateNoValue)
       /\ Returned("ValidateSingleValue") => C12_Outcome(n = 1, errValidateSingleValue)
       /\ Returned("ValidateValueLimit") =>
             LET min == call.arg.min
                 max == call.arg.max
                 unbounded == max = 0 \/ max < min
             IN IF n < min
                THEN C12_Outcome(FALSE, "must have more than " \o ToString(min) \o " values")
                ELSE IF ~unbounded /\ n > max
                THEN C12_Outcome(FALSE, "must have fewer than " \o ToString(max) \o " values")
                ELSE C12_Outcome(TRUE, "")

\* ValidateValueLimit(3, 2) accepted four tokens: max is below min and
\* sets no upper limit.
C12_Witness ==
    /\ Returned("ValidateValueLimit")
    /\ call.arg.min = 3 /\ call.arg.max = 2 /\ Len(call.arg.v) = 4
    /\ ~ret.nil /\ ret.val = call.arg.v

(***************************************************************************)
(* C13.  A line for a field of a built-in numeric scalar type that has no  *)
(* value token, or more than one, fails with the error "must have exactly  *)
(* one value" under the file and the line number, and leaves the field as  *)
(* it was.                                                                 *)
(***************************************************************************)
C13_NumericScalarArity ==
    Returned("parseLine") =>
       LET v == Split(call.arg.line[2], " ")
       IN (v[1] \in NumericKeys /\ Len(Tail(v)) # 1) =>
             /\ ret.panic = NoPanic
             /\ ret.err = fmterr(call.arg.file, call.arg.line[1], v[1], errValidateSingleValue)
             /\ ret.c = c

(***************************************************************************)
(* C14.  parseBool gives true for a token that is one of 1, true, yes, on, *)
(* enable, enabled up to the case of its letters, false for one that is    *)
(* one of 0, false, no, off, disable, disabled up to case, and an error    *)
(* for every other token.  handleBoolSlice gives the values of its tokens  *)
(* in order when each of them is such a word, and otherwise no value and   *)
(* the error of the first token that is not.                               *)
(***************************************************************************)
EqualFold(a, b) ==
    /\ Len(a) = Len(b)
    /\ \A i \in 0..(Len(a) - 1) : ToLowerChar(At(a, i)) = ToLowerChar(At(b, i))

MeansTrue(t) == \E w \in TrueWords : EqualFold(t, w)
MeansFalse(t) == \E w \in FalseWords : EqualFold(t, w)
ErrNotBool(t) == "unable to parse \"" \o t \o "\" as a boolean"

C15_NumberInsensitive ==
    Returned("fieldNameFromKey") =>
       /\ ret.err = NoErr
       /\ call.arg.key \in {"key", "keys"} => ret.name = "Key"
       /\ call.arg.key \in {"plane", "planes"} => ret.name = "Planes"

(***************************************************************************)
(* C16.  For a user whose home is set, FindConfig returns the first that   *)
(* exists of ~/.config/<file>, ~/.<file>, /etc/<file>,                     *)
(* /usr/local/etc/<file>, /usr/pkg/etc/<file> and ./<file>, and "" when    *)
(* none of them exists.                                                    *)
(***************************************************************************)
C16_Candidates ==
    <<"/home/u/.config/app", "/home/u/.app", "/etc/app", "/usr/local/etc/app",
      "/usr/pkg/etc/app", "./app">>

C16_FirstExistingCandidate ==
    (Returned("FindConfig") /\ call.arg.env.HOME = HomeDir /\ call.arg.file = "app") =>
       LET found == {i \in 1..Len(C16_Candidates) : C16_Candidates[i] \in call.arg.exists}
       IN IF found = {} THEN ret.path = ""
          ELSE \E i \in found : (\A j \in found : i <= j) /\ ret.path = C16_Candidates[i]

(***************************************************************************)
(* C17.  When a file ends in an indented line that is retained, and the    *)
(* lines before it give at least one logical line, readFile gives those    *)
(* logical lines with the text of the indented line appended, after one    *)
(* space, to the last of them: whatever the line before was, a source      *)
(* directive included, and with every other logical line as it was.        *)
(***************************************************************************)
\* The physical line is retained, and what it contributes.
Retained(raw) == TrimSpace(raw) # "" /\ At(TrimSpace(raw), 0) # "#"
Indented(raw) == Len(raw) > 0 /\ IsSpace(At(raw, 0))
Normalized(raw) == collapseWhitespace(removeComments(TrimSpace(raw)).v).v

C17_ContinuationJoinsLast ==
    Returned("readFile") =>
       LET f == call.arg.content
           n == Len(f)
       IN (n >= 2 /\ Indented(f[n]) /\ Retained(f[n])) =>
             LET before == readFile(ReadDisk(SubSeq(f, 1, n - 1)), "main")
                 m == Len(before.lines)
             IN (before.panic = NoPanic /\ before.err = NoErr /\ m >= 1) =>
                   /\ ret.panic = NoPanic
                   /\ ret.err = NoErr
                   /\ Len(ret.lines) = m
                   /\ ret.lines[m][1] = before.lines[m][1]
                   /\ ret.lines[m][2] = before.lines[m][2] \o " " \o Normalized(f[n])
                   /\ \A k \in 1..(m - 1) : ret.lines[k] = before.lines[k]

(***************************************************************************)
(* C18.  Every logical line readFile gives for a file without backslashes  *)
(* splits on single spaces into tokens none of which is empty: its text    *)
(* neither starts nor ends with a space and has no two spaces in a row.    *)
(***************************************************************************)
NoBackslash(f) == \A k \in 1..Len(f) : Index(f[k], "\\") < 0

WellFormed(text) ==
    /\ text # ""
    /\ \A i \in 0..(Len(text) - 1) : IsSpace(At(text, i)) => At(text, i) = " "
    /\ LET v == Split(text, " ") IN \A k \in 1..Len(v) : v[k] # ""

C18_LogicalLinesWellFormed ==
    (Returned("readFile") /\ NoBackslash(call.arg.content)
       /\ ret.panic = NoPanic /\ ret.err = NoErr) =>
       \A k \in 1..Len(ret.lines) : WellFormed(ret.lines[k][2])

(***************************************************************************)
(* C19.  For a trimmed line that does not start with a backslash and in    *)
(* which every backslash is followed by a whitespace character:            *)
(* collapseWhitespace gives a text without backslashes that holds a tab    *)
(* for each escaped tab of the line and no other, and that differs from    *)
(* what it gives for the line without any one of its backslashes.          *)
(***************************************************************************)
\* The positions of the line's backslashes, and the line without the one at i.
Backslashes(s) == {i \in 0..(Len(s) - 1) : At(s, i) = "\\"}
Without(s, i) == Slice(s, 0, i) \o Slice(s, i + 1, Len(s))
Count(s, ch) == Cardinality({i \in 0..(Len(s) - 1) : At(s, i) = ch})

EscapesWhitespaceOnly(s) ==
    /\ s = TrimSpace(s)
    /\ Backslashes(s) # {}
    /\ 0 \notin Backslashes(s)
    /\ \A i \in Backslashes(s) : i + 1 < Len(s) /\ IsSpace(At(s, i + 1))

C19_EscapedWhitespaceKept ==
    (Returned("collapseWhitespace") /\ EscapesWhitespaceOnly(call.arg.line)) =>
       LET s == call.arg.line
       IN /\ ret.panic = NoPanic
          /\ Backslashes(ret.v) = {}
          /\ Count(ret.v, "\t")
                = Cardinality({i \in Backslashes(s) : At(s, i + 1) = "\t"})
          /\ \A i \in Backslashes(s) : ret.v # collapseWhitespace(Without(s, i)).v

(***************************************************************************)
(* C20.  For a line as readFile hands it over (not empty, not starting     *)
(* with #), removeComments gives the part of the line before its first #   *)
(* that no backslash immediately precedes, without the backslashes that    *)
(* immediately precede a # in that part.  And readFile gives the same      *)
(* texts, the same error and the same panic for a file as for the file     *)
(* without any one of its lines that are empty or start with # once        *)
(* trimmed.                                                                *)
(***************************************************************************)
\* The position of the first # of s that is not escaped, or Len(s).
Unescaped(s) ==
    {i \in 0..(Len(s) - 1) : At(s, i) = "#" /\ (i = 0 \/ At(s, i - 1) # "\\")}
CommentStart(s) ==
    IF Unescaped(s) = {} THEN Len(s)
    ELSE CHOOSE i \in Unescaped(s) : \A j \in Unescaped(s) : i <= j

\* s[from:to] without the backslashes that a # follows.
RECURSIVE Unescape(_, _, _)
Unescape(s, from, to) ==
    IF from >= to THEN ""
    ELSE IF At(s, from) = "\\" /\ from + 1 < to /\ At(s, from + 1) = "#"
    THEN Unescape(s, from + 1, to)
    ELSE At(s, from) \o Unescape(s, from + 1, to)

Texts(r) == [k \in 1..Len(r.lines) |-> r.lines[k][2]]
Dropped(f, k) == SubSeq(f, 1, k - 1) \o SubSeq(f, k + 1, Len(f))

C20_CommentsRemoved ==
    /\ (Returned("removeComments") /\ call.arg.line # "" /\ At(call.arg.line, 0) # "#") =>
          /\ ret.panic = NoPanic
          /\ ret.v = Unescape(call.arg.line, 0, CommentStart(call.arg.line))
    /\ Returned("readFile") =>
          \A k \in 1..Len(call.arg.content) :
             ~Retained(call.arg.content[k]) =>
                LET without == readFile(ReadDisk(Dropped(call.arg.content, k)), "main")
                IN /\ Texts(ret) = Texts(without)
                   /\ ret.err = without.err
                   /\ ret.panic = without.panic

\* removeComments kept the escaped # of a line and cut it at the # after it.
C20_Witness ==
    /\ Returned("removeComments")
    /\ call.arg.line = "a\\##"
    /\ ret.v = "a#"

(***************************************************************************)
(* C21.  For a line of letters and backslashes that neither starts nor     *)
(* ends with a backslash, collapseWhitespace gives the line with its       *)
(* backslashes consumed in pairs from the left: each pair gives one        *)
(* backslash, and a backslash left alone before a letter gives nothing.    *)
(***************************************************************************)
RECURSIVE Pairwise(_, _)
Pairwise(s, i) ==
    IF i >= Len(s) THEN ""
    ELSE IF At(s, i) # "\\" THEN At(s, i) \o Pairwise(s, i + 1)
    ELSE IF i + 1 < Len(s) /\ At(s, i + 1) = "\\" THEN "\\" \o Pairwise(s, i + 2)
    ELSE Pairwise(s, i + 1)

LettersAndBackslashes(s) ==
    /\ Len(s) > 0
    /\ \A i \in 0..(Len(s) - 1) : At(s, i) \in {"a", "\\"}
    /\ At(s, 0) # "\\"
    /\ At(s, Len(s) - 1) # "\\"

C21_BackslashPairs ==
    (Returned("collapseWhitespace") /\ LettersAndBackslashes(call.arg.line)) =>
       /\ ret.panic = NoPanic
       /\ ret.v = Pairwise(call.arg.line, 0)

(***************************************************************************)
(* C22.  When readFile returns lines, they are, in order, what the         *)
(* non-indented retained physical lines of the file give one after the     *)
(* other: a source directive the lines of the file it names, found the     *)
(* same way, and any other line one logical line with the line's number,   *)
(* whose text starts with the line's text.  In a file without source       *)
(* directives the numbers of the logical lines go strictly up.             *)
(***************************************************************************)
\* The <<number, text>> the non-indented retained lines of disk[f] start,
\* from the physical line k on.
RECURSIVE Heads(_, _, _)
Heads(disk, f, k) ==
    IF k > Len(disk[f]) THEN <<>>
    ELSE LET raw == disk[f][k]
             rest == Heads(disk, f, k + 1)
         IN IF ~Retained(raw) \/ Indented(raw) THEN rest
            ELSE IF HasPrefix(Normalized(raw), "source ")
            THEN Heads(disk, Slice(Normalized(raw), 7, Len(Normalized(raw))), 1) \o rest
            ELSE <<<<ToString(k), Normalized(raw)>>>> \o rest

\* The decimal numeral s denotes less than the numeral t.
NumeralLess(s, t) == DecimalValue(s) < DecimalValue(t)

C22_OrderKept ==
    (Returned("readFile") /\ ret.panic = NoPanic /\ ret.err = NoErr) =>
       LET disk == ReadDisk(call.arg.content)
           heads == Heads(disk, "main", 1)
       IN /\ Len(ret.lines) = Len(heads)
          /\ \A j \in 1..Len(heads) :
                /\ ret.lines[j][1] = heads[j][1]
                /\ HasPrefix(ret.lines[j][2], heads[j][2])
          /\ (\A k \in 1..Len(call.arg.content) :
                 ~HasPrefix(call.arg.content[k], "source ")) =>
                \A j \in 1..(Len(ret.lines) - 1) :
                   NumeralLess(ret.lines[j][1], ret.lines[j + 1][1])

\* readFile gave a line of its file, then the lines of a file that sources
\* another, then a later line of its file.
C22_Witness ==
    /\ Returned("readFile")
    /\ call.arg.content = <<"host a", "source nest", "host  # note">>
    /\ Len(ret.lines) = 4
    /\ ret.lines[1] = <<"1", "host a">>
    /\ ret.lines[2] = <<"1", "key v">>
    /\ ret.lines[3] = <<"3", "nest n">>
    /\ ret.lines[4][1] = "3"

(***************************************************************************)
(* C23.  When readFile returns lines: in a file without source directives  *)
(* the number of the j-th logical line is the position in the file of its  *)
(* j-th non-indented retained line, blank lines, comments and indented     *)
(* lines counted; the numbers are those of the file with its indented      *)
(* lines blanked; and the lines a source directive gives carry the numbers *)
(* readFile gives them when it reads the sourced file itself.              *)
(***************************************************************************)
Numbers(r) == [k \in 1..Len(r.lines) |-> r.lines[k][1]]
Starts(f) == {k \in 1..Len(f) : Retained(f[k]) /\ ~Indented(f[k])}
Blanked(f) == [k \in 1..Len(f) |-> IF Indented(f[k]) THEN "" ELSE f[k]]
IsSource(raw) == ~Indented(raw) /\ HasPrefix(Normalized(raw), "source ")

C23_OriginNumbers ==
    (Returned("readFile") /\ ret.panic = NoPanic /\ ret.err = NoErr) =>
       LET f == call.arg.content
           disk == ReadDisk(f)
       IN /\ (\A k \in 1..Len(f) : ~IsSource(f[k])) =>
                /\ Len(ret.lines) = Cardinality(Starts(f))
                /\ \A j \in 1..Len(ret.lines) :
                      \E k \in Starts(f) :
                         /\ Cardinality({m \in Starts(f) : m <= k}) = j
                         /\ ret.lines[j][1] = ToString(k)
          /\ Numbers(ret) = Numbers(readFile(ReadDisk(Blanked(f)), "main"))
          /\ \A k \in 1..Len(f) :
                IsSource(f[k]) =>
                   LET sub == readFile(disk, Slice(Normalized(f[k]), 7, Len(Normalized(f[k]))))
                       p == Len(readFile(ReadDisk(SubSeq(f, 1, k - 1)), "main").lines)
                   IN \A j \in 1..Len(sub.lines) : ret.lines[p + j][1] = sub.lines[j][1]

\* The logical line that starts at the second physical line, after a
\* comment, has the number 2 and the text of its continuation.
C23_Witness ==
    /\ Returned("readFile")
    /\ call.arg.content = <<" # c", "host a", " b">>
    /\ ret.lines = <<<<"2", "host a b">>>>

(***************************************************************************)
(* C24.  fieldNameFromKey resolves a key to the name made of its           *)
(* components, each camelized, and upper-cased when the whole component is *)
(* a listed acronym; a field of the record that has this name is found.    *)
(***************************************************************************)
Acronyms == {acr[k] : k \in 1..Len(acr)}

WholeTokens(parts) ==
    [k \in 1..Len(parts) |->
        IF Camelize(parts[k]) \in Acronyms THEN ToUpper(Camelize(parts[k]))
        ELSE Camelize(parts[k])]

TokenName(key) == Join(WholeTokens(Split(key, "-")), "")

C24_WholeTokenAcronyms ==
    (Returned("fieldNameFromKey") /\ call.arg.key \in AcronymKeys) =>
       (TokenName(call.arg.key) \in call.arg.fields =>
           /\ ret.err = NoErr
           /\ ret.name = TokenName(call.arg.key))

(***************************************************************************)
(* C25.  For a field of a sized integer type, scalar or slice, of a width  *)
(* whose limits the model can hold (8 and 16 bits, signed and unsigned): a *)
(* line whose decimal tokens all lie in the range of the type stores their *)
(* values as they are, and a line with a token outside the range fails and *)
(* leaves the record as it was; no value is stored reduced modulo 2^w.     *)
(***************************************************************************)
TokenValue(t) ==
    IF At(t, 0) = "-" THEN 0 - DecimalValue(Slice(t, 1, Len(t))) ELSE DecimalValue(t)

WidthOf(k) == IF k \in {"int8", "uint8", "int8s", "uint8s"} THEN 8 ELSE 16
IsUnsigned(k) == At(k, 0) = "u"
InRange(k, n) ==
    IF IsUnsigned(k) THEN n >= 0 /\ n < 2 ^ WidthOf(k)
    ELSE n >= 0 - 2 ^ (WidthOf(k) - 1) /\ n < 2 ^ (WidthOf(k) - 1)

\* The field of the tests' naming each key is written for.
SizedField ==
    [int8 |-> "Int8", int16 |-> "Int16", uint8 |-> "UInt8", uint16 |-> "UInt16",
     int8s |-> "Int8s", int16s |-> "Int16s", uint8s |-> "UInt8s", uint16s |-> "UInt16s"]

DiffersOnlyIn(reg, t) ==
    /\ DOMAIN reg \in {DOMAIN BuiltinTypeHandlers, DOMAIN BuiltinTypeHandlers \ {t}}
    /\ \A u \in DOMAIN reg \ {t} : reg[u] = BuiltinTypeHandlers[u]

C26_BuiltinsIgnoreRegistry ==
    (call.fn \in CalledBuiltins /\ "pending" \notin DOMAIN ret) =>
       \A t \in ChangedTypes :
          (DiffersOnlyIn(TypeHandlers, t) /\ ReturnsType(call.fn) # t) =>
             ret = CallTypeHandler(call.fn, call.arg.v, BuiltinTypeHandlers)

(***************************************************************************)
(* C27.  With no callbacks, a line whose key resolves to no field, whose   *)
(* field's type has no entry in the registry, or whose type handler        *)
(* returns an error makes the loop of Parse return an error with the       *)
(* record exactly as it was before the line; a line that returns no error  *)
(* changes at most the field it is written for.                            *)
(***************************************************************************)
C27_FailedLineChangesNothing ==
    Returned("parseLine") =>
       LET v == Split(call.arg.line[2], " ")
           resolved == fieldNameFromKey(v[1], DOMAIN c)
           known == resolved.err = NoErr
           typed == known /\ FieldTypes[resolved.name] \in DOMAIN TypeHandlers
           converted == IF typed
                        THEN CallTypeHandler(TypeHandlers[FieldTypes[resolved.name]],
                                             Tail(v), TypeHandlers)
                        ELSE Panicked(NoPanic)
       IN /\ (~known \/ ~typed \/ (converted.panic = NoPanic /\ converted.err # NoErr)) =>
                /\ ret.panic = NoPanic
                /\ ret.err # NoErr
                /\ ret.c = c
          /\ ret.err # NoErr => ret.c = c
          /\ (ret.panic = NoPanic /\ ret.err = NoErr) =>
                \A f \in DOMAIN c \ {resolved.name} : ret.c[f] = c[f]

\* The second token of a line for a slice of int8 is malformed: the call
\* fails and the slice keeps the element it had, without the 5.
C27_Witness ==
    /\ Returned("parseLine")
    /\ call.arg.line = <<"2", "int8s 5 nope">>
    /\ TypeHandlers = BuiltinTypeHandlers
    /\ ret.err = "main line 2: error parsing int8s: strconv.ParseInt: parsing \"nope\": invalid syntax"
    /\ ret.c.Int8s = <<7>>

(***************************************************************************)
(* C28.  When Parse returns the error of a logical line that was read from *)
(* a sourced file, at the physical line N of that file, the error starts   *)
(* with the path Parse was called with, " line " and N, as the error of    *)
(* the line N of the top-level file does, and the path of the sourced file *)
(* occurs nowhere in it.                                                   *)
(***************************************************************************)
\* The logical line idx starts with the physical line N of the sourced file
\* f; no line of a top-level file of the model starts as one of these does.
ReadFrom(f, N) ==
    /\ f \in DOMAIN SourcedFiles
    /\ N \in 1..Len(SourcedFiles[f])
    /\ HasPrefix(lines[idx][2], SourcedFiles[f][N])

C28_SourcedErrorNamesTopLevel ==
    LineFailed =>
       \A f \in DOMAIN SourcedFiles : \A N \in 1..Len(SourcedFiles[f]) :
          ReadFrom(f, N) =>
             /\ HasPrefix(err, file \o " line " \o ToString(N) \o ": error parsing ")
             /\ Index(err, f) < 0

\* The second line of the sourced file inc fails for want of a handler for
\* strings, and the error names main and the line 2.
C28_Witness ==
    /\ LineFailed
    /\ content = <<"plane b", "source inc">>
    /\ ReadFrom("inc", 2)
    /\ "[]string" \in DOMAIN TypeHandlers
    /\ err = "main line 2: error parsing host: don't know how to set fields of the type string"

(***************************************************************************)
(* C29.  When no file that can be reached from the start file through      *)
(* source directives sources itself, directly or through other files, the  *)
(* call of Parse returns, with the lines read or with an error; no logical *)
(* line is dispatched twice.  readFile does not look at the files it is    *)
(* reading: once a source directive names one of them, the calls of        *)
(* readFile pile up until the process has no room for another, and no      *)
(* error is returned.                                                      *)
(***************************************************************************)
SourcedBy(disk, f) ==
    {Slice(Normalized(disk[f][k]), 7, Len(Normalized(disk[f][k]))) :
        k \in {j \in 1..Len(disk[f]) : Retained(disk[f][j]) /\ IsSource(disk[f][j])}}

RECURSIVE ReachableFrom(_, _)
ReachableFrom(disk, S) ==
    LET T == S \cup UNION {SourcedBy(disk, f) : f \in S \cap DOMAIN disk}
    IN IF T = S THEN S ELSE ReachableFrom(disk, T)

SourcesItself(disk, f) == f \in DOMAIN disk /\ f \in ReachableFrom(disk, SourcedBy(disk, f))
Acyclic == \A f \in ReachableFrom(GraphDisk(content), {"main"}) :
              ~SourcesItself(GraphDisk(content), f)

\* The innermost readFile is at a source directive that names a file being
\* read.
Reenters ==
    /\ pc = "reading"
    /\ LET fr == stack[Len(stack)]
           text == GraphDisk(content)[fr.file]
       IN /\ fr.k <= Len(text)
          /\ Retained(text[fr.k])
          /\ IsSource(text[fr.k])
          /\ \E j \in 1..Len(stack) :
                stack[j].file = Slice(Normalized(text[fr.k]), 7, Len(Normalized(text[fr.k])))

====
